---------------------------- MODULE Spec2Model ----------------------------
(***************************************************************************)
(* A model of the core of modern-uuid: the bit packer                      *)
(* (inc/modern-uuid/bit_packer.h), the clock states and their persistence  *)
(* protocol (src/clocks.cpp) and the fork-safe singletons                  *)
(* (src/fork_handler.h).                                                   *)
(***************************************************************************)
EXTENDS Integers, Sequences, FiniteSets, TLC

VARIABLES
    \* ---- bit packer runs
    bpB,        \* BitsPerByte of the instantiation
    bpP,        \* PackedBytes of the instantiation
    bpSrc,      \* the source array handed to the first call
    bpFill,     \* what every element of a destination array holds before a call
    bpMid,      \* the result of the first call (a record of RunPacker)
    bpOut,      \* the result of the second call, fed with bpMid.dst
    bpPhase,    \* "init", "unpacked", "repacked"
    \* ---- clock states and their persistence
    variant,              \* the generator of the run: "v1", "v6", "v7" or "ulid"
    max_adjustment,       \* m_max_adjustment, fixed once per process
    g_clock_persistence,  \* the installed backend: 0 (nullptr) or 1
    stored,               \* the record the backend holds, or NoRecord
    lock_holder,          \* the thread holding the backend's lock, or 0
    state,                \* per thread: its thread-local clock state
    pc,                   \* per thread: where it is in get_clock_*()
    current_pers,         \* per thread: the backend pointer get_clock_*() read
    wait_now,             \* per thread: the reading next_distinct_now() compares with
    clock,                \* the last reading system_clock::now() returned
    went_back,            \* some reading was lower than the reading before it
    jumps,                \* how often a state saw a reading quantize below last_time
    result,               \* per thread: what its last get() returned, or NoResult
    ngets,                \* per thread: how many get() calls have returned
    last_get,             \* the get() that returned last, on any thread: [by, val]
    marked,               \* one returned value, remembered; or NoResult
    \* ---- singletons that are reset on fork
    m_initialized_in_this_process,  \* reset_on_fork_singleton: the atomic flag
    m_mutex,              \* reset_on_fork_singleton: the thread holding it, or 0
    m_obj,                \* reset_on_fork_singleton: its object_buffer
    sg_pc,                \* per thread: where it is in the singleton's instance()
    sg_ret,               \* per thread: the object its last instance() returned
    sg_early,             \* some instance() returned storage holding no object
    s_need_to_reset,      \* reset_on_fork_thread_local: the flag the child hook sets
    obj,                  \* per thread: the thread_local object_buffer
    tl_init,              \* per thread: obj has been initialized
    tl_alive,             \* per thread: it exists in the process followed
    tl_ret,               \* per thread: the object its last instance() returned
    calls,                \* per thread: instance() calls made
    nctor,                \* constructor calls that completed
    nthrows,              \* constructor calls that threw
    forks,                \* forks followed into the child
    at_fork,              \* what the last fork copied: the forking thread's obj, nctor
    since_fork,           \* instance() calls that returned since the last fork
    registered,           \* reset_on_fork_singleton: pthread_atfork() has been called
    tl_registered,        \* reset_on_fork_thread_local: pthread_atfork() was called
    destroyed,            \* ids of the objects whose destructor has run
    m_locked_for_fork,    \* the singleton's object, a type with fork hooks: the
                          \* flag its pre-fork hook sets and its post-fork hook clears
    \* ---- the persistence protocol
    kind,                 \* the states of the run: "uuid" (load_once) or "ulid"
    g_persistence,        \* g_clock_persistence_*: the installed backend, or 0
    refs,                 \* per backend: its add_ref() and sub_ref() calls so far
    plock,                \* per backend: the handle whose lock() holds it, or 0
    pstored,              \* per backend: whether it holds a record
    handles,              \* the handles get_for_current_thread() returned, with
                          \* the calls made on each
    nfails,               \* calls into a backend that threw
    m_holder,             \* per thread: m_persistence, m_per_thread, m_initialized
    ppc,                  \* per thread: where it is in get_clock_*()
    pcur,                 \* per thread: current_pers
    generations,          \* per thread: get_clock_*() calls begun
    outcome,              \* per thread: how its last get_clock_*() call ended
    app_pc,               \* where the application is in set_*_persistence()
    app_arg,              \* set_*_persistence(): pers
    app_old,              \* set_*_persistence(): old
    installs,             \* set_*_persistence() calls begun
    \* ---- the detection of the clock tick, and the fields of a version 7 UUID
    tk_pc,                \* where the process is in get_clock_tick()
    tk_diffs,             \* diffs[]: the differences of the readings taken so far
    tk_tick,              \* the static max_adjustment of get_clock_tick(), in counts
    tk_per_unit,          \* system_clock counts per max_unit_duration of the state
    tk_max_adjustment,    \* what get_max_adjustment() returned, or -1
    v7_adjusted,          \* get_clock_v7(): adjusted_now, in microseconds
    v7_result             \* what get_clock_v7() returned and the field made of it

bpVars == <<bpB, bpP, bpSrc, bpFill, bpMid, bpOut, bpPhase>>

forkVars ==
    <<m_initialized_in_this_process, m_mutex, m_obj, sg_pc, sg_ret, sg_early,
      s_need_to_reset, obj, tl_init, tl_alive, tl_ret, calls, nctor, nthrows, forks,
      at_fork, since_fork, registered, tl_registered, destroyed, m_locked_for_fork>>

protoVars ==
    <<kind, g_persistence, refs, plock, pstored, handles, nfails, m_holder, ppc, pcur,
      generations, outcome, app_pc, app_arg, app_old, installs>>

numVars ==
    <<tk_pc, tk_diffs, tk_tick, tk_per_unit, tk_max_adjustment, v7_adjusted, v7_result>>

\* everything but the clock variables
notClockVars == <<bpVars, forkVars, protoVars, numVars>>

clockVars ==
    <<variant, max_adjustment, g_clock_persistence, stored, lock_holder, state, pc,
      current_pers, wait_now, clock, went_back, jumps, result, ngets, last_get,
      marked>>

\* everything but the bit packer's variables
notBpVars == <<clockVars, forkVars, protoVars, numVars>>

\* everything but the singletons' variables
notForkVars == <<bpVars, clockVars, protoVars, numVars>>

\* everything but the persistence protocol's variables
notProtoVars == <<bpVars, clockVars, forkVars, numVars>>

\* everything but the variables of the tick detection and of get_clock_v7()
notNumVars == <<bpVars, clockVars, forkVars, protoVars>>

(***************************************************************************)
(* uint8_t arithmetic                                                      *)
(***************************************************************************)
Pow2(n) == <<1, 2, 4, 8, 16, 32, 64, 128, 256>>[n + 1]

U8(x) == x % 256

\* a left shift whose result, stored in a uint8_t, gets the bits shifted out of
\* the byte back at its low end
RotateLeft(x, k) == ((x * Pow2(k)) % 256) + ((x * Pow2(k)) \div 256)

ShiftLeft(x, k) == x * Pow2(k)

ShiftRight(x, k) == x \div Pow2(k)

RECURSIVE BitAndN(_, _, _)
BitAndN(a, b, n) ==
    IF n = 0 THEN 0
    ELSE (IF a % 2 = 1 /\ b % 2 = 1 THEN 1 ELSE 0) + 2 * BitAndN(a \div 2, b \div 2, n - 1)

RECURSIVE BitOrN(_, _, _)
BitOrN(a, b, n) ==
    IF n = 0 THEN 0
    ELSE (IF a % 2 = 1 \/ b % 2 = 1 THEN 1 ELSE 0) + 2 * BitOrN(a \div 2, b \div 2, n - 1)

\* the low eight bits of a & b and of a | b: all that a uint8_t destination keeps
BitAnd8(a, b) == BitAndN(U8(a), U8(b), 8)

BitOr8(a, b) == BitOrN(U8(a), U8(b), 8)

RECURSIVE Gcd(_, _)
Gcd(a, b) == IF b = 0 THEN a ELSE Gcd(b, a % b)

Lcm(a, b) == (a * b) \div Gcd(a, b)

(***************************************************************************)
(* bit_packer_impl: the compile-time quantities of an instantiation        *)
(***************************************************************************)
total_bits(P) == P * 8

remainder(B, P) == total_bits(P) % B

unpacked_bytes(B, P) == (total_bits(P) \div B) + (IF remainder(B, P) # 0 THEN 1 ELSE 0)

full_rounds(B, P) == total_bits(P) \div Lcm(B, 8)

(***************************************************************************)
(* One statement of an unrolled body.  set: "dst[i] = e" (TRUE) or         *)
(* "dst[i] |= e" (FALSE); e is src[j] shifted left or right by k, and      *)
(* masked with 2^B - 1 when mask; incj: the statement reads src[j++];      *)
(* inci: a "++i" follows the statement.                                    *)
(***************************************************************************)
St(set, dir, k, mask, incj, inci) ==
    [set |-> set, dir |-> dir, k |-> k, mask |-> mask, incj |-> incj, inci |-> inci]

\* pack statements never mask
PSet(dir, k, incj, inci) == St(TRUE, dir, k, FALSE, incj, inci)

POr(dir, k, incj, inci) == St(FALSE, dir, k, FALSE, incj, inci)

(***************************************************************************)
(* The switch bodies of pack_bits, one sequence of <<label, statements>>   *)
(* per width, in source order (control falls through to the next case).    *)
(***************************************************************************)
PackCases2 ==
    << <<0, << PSet("L", 6, TRUE, FALSE), POr("L", 4, TRUE, FALSE),
               POr("L", 2, TRUE, FALSE), POr("L", 0, TRUE, TRUE) >> >> >>

\* a body for the width 3 whose first statement ORs into dst[i]
PackCases3OrFirst ==
    << <<0, << POr("L", 5, TRUE, FALSE), POr("L", 2, TRUE, FALSE),
               POr("R", 1, FALSE, TRUE) >> >>,
       <<1, << PSet("L", 7, TRUE, FALSE), POr("L", 4, TRUE, FALSE),
               POr("L", 1, TRUE, FALSE), POr("R", 2, FALSE, TRUE) >> >>,
       <<2, << PSet("L", 6, TRUE, FALSE), POr("L", 3, TRUE, FALSE),
               POr("L", 0, TRUE, TRUE) >> >> >>

PackCases3 ==
    << <<0, << PSet("L", 5, TRUE, FALSE), POr("L", 2, TRUE, FALSE),
               POr("R", 1, FALSE, TRUE) >> >>,
       <<1, << PSet("L", 7, TRUE, FALSE), POr("L", 4, TRUE, FALSE),
               POr("L", 1, TRUE, FALSE), POr("R", 2, FALSE, TRUE) >> >>,
       <<2, << PSet("L", 6, TRUE, FALSE), POr("L", 3, TRUE, FALSE),
               POr("L", 0, TRUE, TRUE) >> >> >>

PackCases4 ==
    << <<0, << PSet("L", 4, TRUE, FALSE), POr("L", 0, TRUE, TRUE) >> >> >>

PackCases5 ==
    << <<0, << PSet("L", 3, TRUE, FALSE), POr("R", 2, FALSE, TRUE) >> >>,
       <<2, << PSet("L", 6, TRUE, FALSE), POr("L", 1, TRUE, FALSE),
               POr("R", 4, FALSE, TRUE) >> >>,
       <<4, << PSet("L", 4, TRUE, FALSE), POr("R", 1, FALSE, TRUE) >> >>,
       <<1, << PSet("L", 7, TRUE, FALSE), POr("L", 2, TRUE, FALSE),
               POr("R", 3, FALSE, TRUE) >> >>,
       <<3, << PSet("L", 5, TRUE, FALSE), POr("L", 0, TRUE, TRUE) >> >> >>

PackCases6 ==
    << <<0, << PSet("L", 2, TRUE, FALSE), POr("R", 4, FALSE, TRUE) >> >>,
       <<4, << PSet("L", 4, TRUE, FALSE), POr("R", 2, FALSE, TRUE) >> >>,
       <<2, << PSet("L", 6, TRUE, FALSE), POr("L", 0, TRUE, TRUE) >> >> >>

PackCases7 ==
    << <<0, << PSet("L", 1, TRUE, FALSE), POr("R", 6, FALSE, TRUE) >> >>,
       <<6, << PSet("L", 2, TRUE, FALSE), POr("R", 5, FALSE, TRUE) >> >>,
       <<5, << PSet("L", 3, TRUE, FALSE), POr("R", 4, FALSE, TRUE) >> >>,
       <<4, << PSet("L", 4, TRUE, FALSE), POr("R", 3, FALSE, TRUE) >> >>,
       <<3, << PSet("L", 5, TRUE, FALSE), POr("R", 2, FALSE, TRUE) >> >>,
       <<2, << PSet("L", 6, TRUE, FALSE), POr("R", 1, FALSE, TRUE) >> >>,
       <<1, << PSet("L", 7, TRUE, FALSE), POr("L", 0, TRUE, TRUE) >> >> >>

PackCases(B) ==
    CASE B = 2 -> PackCases2
      [] B = 3 -> PackCases3
      [] B = 4 -> PackCases4
      [] B = 5 -> PackCases5
      [] B = 6 -> PackCases6
      [] B = 7 -> PackCases7

(***************************************************************************)
(* The switch bodies of unpack_bits.                                       *)
(***************************************************************************)
UnpackCases2 ==
    << <<0, << St(TRUE, "R", 6, FALSE, FALSE, TRUE), St(TRUE, "R", 4, TRUE, FALSE, TRUE),
               St(TRUE, "R", 2, TRUE, FALSE, TRUE), St(TRUE, "L", 0, TRUE, TRUE, TRUE) >> >> >>

UnpackCases3 ==
    << <<0, << St(TRUE, "R", 5, FALSE, FALSE, TRUE), St(TRUE, "R", 2, TRUE, FALSE, TRUE),
               St(TRUE, "L", 1, TRUE, TRUE, FALSE) >> >>,
       <<1, << St(FALSE, "R", 7, FALSE, FALSE, TRUE), St(TRUE, "R", 4, TRUE, FALSE, TRUE),
               St(TRUE, "R", 1, TRUE, FALSE, TRUE), St(TRUE, "L", 2, TRUE, TRUE, FALSE) >> >>,
       <<2, << St(FALSE, "R", 6, FALSE, FALSE, TRUE), St(TRUE, "R", 3, TRUE, FALSE, TRUE),
               St(TRUE, "L", 0, TRUE, TRUE, TRUE) >> >> >>

UnpackCases4 ==
    << <<0, << St(TRUE, "R", 4, FALSE, FALSE, TRUE), St(TRUE, "L", 0, TRUE, TRUE, TRUE) >> >> >>

\* a body for the width 5 whose last statement forgets its mask
UnpackCases5Unmasked ==
    << <<0, << St(TRUE, "R", 3, FALSE, FALSE, TRUE), St(TRUE, "L", 2, TRUE, TRUE, FALSE) >> >>,
       <<2, << St(FALSE, "R", 6, FALSE, FALSE, TRUE), St(TRUE, "R", 1, TRUE, FALSE, TRUE),
               St(TRUE, "L", 4, TRUE, TRUE, FALSE) >> >>,
       <<4, << St(FALSE, "R", 4, FALSE, FALSE, TRUE), St(TRUE, "L", 1, TRUE, TRUE, FALSE) >> >>,
       <<1, << St(FALSE, "R", 7, FALSE, FALSE, TRUE), St(TRUE, "R", 2, TRUE, FALSE, TRUE),
               St(TRUE, "L", 3, TRUE, TRUE, FALSE) >> >>,
       <<3, << St(FALSE, "R", 5, FALSE, FALSE, TRUE), St(TRUE, "L", 0, FALSE, TRUE, TRUE) >> >> >>

UnpackCases5 ==
    << <<0, << St(TRUE, "R", 3, FALSE, FALSE, TRUE), St(TRUE, "L", 2, TRUE, TRUE, FALSE) >> >>,
       <<2, << St(FALSE, "R", 6, FALSE, FALSE, TRUE), St(TRUE, "R", 1, TRUE, FALSE, TRUE),
               St(TRUE, "L", 4, TRUE, TRUE, FALSE) >> >>,
       <<4, << St(FALSE, "R", 4, FALSE, FALSE, TRUE), St(TRUE, "L", 1, TRUE, TRUE, FALSE) >> >>,
       <<1, << St(FALSE, "R", 7, FALSE, FALSE, TRUE), St(TRUE, "R", 2, TRUE, FALSE, TRUE),
               St(TRUE, "L", 3, TRUE, TRUE, FALSE) >> >>,
       <<3, << St(FALSE, "R", 5, FALSE, FALSE, TRUE), St(TRUE, "L", 0, TRUE, TRUE, TRUE) >> >> >>

UnpackCases6 ==
    << <<0, << St(TRUE, "R", 2, FALSE, FALSE, TRUE), St(TRUE, "L", 4, TRUE, TRUE, FALSE) >> >>,
       <<4, << St(FALSE, "R", 4, FALSE, FALSE, TRUE), St(TRUE, "L", 2, TRUE, TRUE, FALSE) >> >>,
       <<2, << St(FALSE, "R", 6, FALSE, FALSE, TRUE), St(TRUE, "L", 0, TRUE, TRUE, TRUE) >> >> >>

UnpackCases7 ==
    << <<0, << St(TRUE, "R", 1, FALSE, FALSE, TRUE), St(TRUE, "L", 6, TRUE, TRUE, FALSE) >> >>,
       <<6, << St(FALSE, "R", 2, FALSE, FALSE, TRUE), St(TRUE, "L", 5, TRUE, TRUE, FALSE) >> >>,
       <<5, << St(FALSE, "R", 3, FALSE, FALSE, TRUE), St(TRUE, "L", 4, TRUE, TRUE, FALSE) >> >>,
       <<4, << St(FALSE, "R", 4, FALSE, FALSE, TRUE), St(TRUE, "L", 3, TRUE, TRUE, FALSE) >> >>,
       <<3, << St(FALSE, "R", 5, FALSE, FALSE, TRUE), St(TRUE, "L", 2, TRUE, TRUE, FALSE) >> >>,
       <<2, << St(FALSE, "R", 6, FALSE, FALSE, TRUE), St(TRUE, "L", 1, TRUE, TRUE, FALSE) >> >>,
       <<1, << St(FALSE, "R", 7, FALSE, FALSE, TRUE), St(TRUE, "L", 0, TRUE, TRUE, TRUE) >> >> >>

UnpackCases(B) ==
    CASE B = 2 -> UnpackCases2
      [] B = 3 -> UnpackCases3
      [] B = 4 -> UnpackCases4
      [] B = 5 -> UnpackCases5
      [] B = 6 -> UnpackCases6
      [] B = 7 -> UnpackCases7

(***************************************************************************)
(* Running the code.  A machine state m holds the destination array dst    *)
(* (a function on 0..n-1), the indices i and j, the set of destination     *)
(* indices written so far, the highest source index read (-1: none) and    *)
(* whether an index ever left its array.                                   *)
(***************************************************************************)
ExecSt(B, s, src, m) ==
    IF m.i \notin DOMAIN m.dst \/ m.j \notin DOMAIN src
    THEN [m EXCEPT !.oob = TRUE]
    ELSE
        LET shifted == IF s.dir = "L" THEN ShiftLeft(src[m.j], s.k)
                       ELSE ShiftRight(src[m.j], s.k)
            e == IF s.mask THEN BitAnd8(shifted, Pow2(B) - 1) ELSE shifted
            v == IF s.set THEN U8(e) ELSE BitOr8(m.dst[m.i], e)
        IN  [dst |-> [m.dst EXCEPT ![m.i] = v],
             i |-> IF s.inci THEN m.i + 1 ELSE m.i,
             j |-> IF s.incj THEN m.j + 1 ELSE m.j,
             written |-> m.written \cup {m.i},
             maxread |-> IF m.j > m.maxread THEN m.j ELSE m.maxread,
             oob |-> m.oob]

RECURSIVE ExecSts(_, _, _, _, _)
ExecSts(B, sts, k, src, m) ==
    IF k > Len(sts) THEN m
    ELSE ExecSts(B, sts, k + 1, src, ExecSt(B, sts[k], src, m))

\* the switch: enter at the case labelled state and fall through to the end
RECURSIVE ExecSwitch(_, _, _, _, _, _)
ExecSwitch(B, cases, k, entered, src, st_m) ==
    IF k > Len(cases) THEN st_m.m
    ELSE LET hit == entered \/ cases[k][1] = st_m.state
         IN  ExecSwitch(B, cases, k + 1, hit, src,
                        [state |-> st_m.state,
                         m |-> IF hit THEN ExecSts(B, cases[k][2], 1, src, st_m.m)
                               ELSE st_m.m])

\* do { switch (state) {...} state = 0; } while (i < bound);
RECURSIVE DoWhile(_, _, _, _, _, _)
DoWhile(B, cases, entry, bound, src, m) ==
    LET m1 == ExecSwitch(B, cases, 1, FALSE, src, [state |-> entry, m |-> m])
    IN  IF m1.i < bound /\ ~m1.oob
        THEN DoWhile(B, cases, 0, bound, src, m1)
        ELSE m1

Machine(dst) ==
    [dst |-> dst, i |-> 0, j |-> 0, written |-> {}, maxread |-> -1, oob |-> FALSE]

\* a body that leaves dst[0] as the caller filled it
ClearFirstSkipped(B, P, m) == m

\* "if constexpr (remainder != 0) dst[0] = 0;" of the widths 3, 5, 6 and 7
ClearFirst(B, P, m) ==
    IF B \in {3, 5, 6, 7} /\ remainder(B, P) # 0
    THEN [m EXCEPT !.dst = [m.dst EXCEPT ![0] = 0], !.written = m.written \cup {0}]
    ELSE m

PackBound(B, P) ==
    IF B \in {2, 4} THEN P ELSE full_rounds(B, P) * (Lcm(B, 8) \div 8)

\* a loop bound that counts one round more than the bytes hold
UnpackBoundOneMore(B, P) ==
    IF B \in {2, 4} THEN unpacked_bytes(B, P)
    ELSE ((full_rounds(B, P) + 1) * Lcm(B, 8)) \div B

UnpackBound(B, P) ==
    IF B \in {2, 4} THEN unpacked_bytes(B, P) ELSE (full_rounds(B, P) * Lcm(B, 8)) \div B

\* a switch that is always entered at its first case
EntryStateZero(B, P) == 0

\* "auto state = bit_packer::remainder;" (widths 2 and 4 have no switch)
EntryState(B, P) == IF B \in {2, 4} THEN 0 ELSE remainder(B, P)

\* pack_bits(src, dst): src holds unpacked_bytes digits, dst packed_bytes bytes
pack_bits(B, P, src, dst) ==
    DoWhile(B, PackCases(B), EntryState(B, P), PackBound(B, P), src,
            ClearFirst(B, P, Machine(dst)))

\* unpack_bits(src, dst): src holds packed_bytes bytes, dst unpacked_bytes digits
unpack_bits(B, P, src, dst) ==
    DoWhile(B, UnpackCases(B), EntryState(B, P), UnpackBound(B, P), src,
            ClearFirst(B, P, Machine(dst)))

(***************************************************************************)
(* Bit packer runs: unpack a byte array, then pack the digits again.       *)
(***************************************************************************)
MaxP == 8

\* probe bytes: every single bit, every single cleared bit, 0x00, 0xFF and 0x2D
ProbeBytes ==
    {1, 2, 4, 8, 16, 32, 64, 128} \cup {254, 253, 251, 247, 239, 223, 191, 127}
        \cup {0, 255, 45}

\* the byte arrays tried: a background of 0x00 or 0xFF with one probe byte in it
ByteArrays(P) ==
    {[x \in 0..(P - 1) |-> IF x = p THEN v ELSE bg] :
        p \in 0..(P - 1), v \in ProbeBytes, bg \in {0, 255}}

Filled(n, v) == [x \in 0..(n - 1) |-> v]

NoRun == [dst |-> <<>>, i |-> 0, j |-> 0, written |-> {}, maxread |-> -1, oob |-> FALSE]

\* the size of a ULID, which is written in digits of 5 bits
UlidBytes == 16

\* the instantiations tried: every size up to MaxP, and the size of a ULID
PackedSizes == (1..MaxP) \cup {UlidBytes}

BPInit ==
    /\ bpB \in 2..7
    /\ bpP \in PackedSizes
    /\ bpSrc \in ByteArrays(bpP)
    /\ bpFill \in {1, 255}
    /\ bpMid = NoRun
    /\ bpOut = NoRun
    /\ bpPhase = "init"

BPUnpack ==
    /\ UNCHANGED notBpVars
    /\ bpPhase = "init"
    /\ bpMid' = unpack_bits(bpB, bpP, bpSrc, Filled(unpacked_bytes(bpB, bpP), bpFill))
    /\ bpPhase' = "unpacked"
    /\ UNCHANGED <<bpB, bpP, bpSrc, bpFill, bpOut>>

BPRepack ==
    /\ UNCHANGED notBpVars
    /\ bpPhase = "unpacked"
    /\ bpOut' = pack_bits(bpB, bpP, bpMid.dst, Filled(bpP, bpFill))
    /\ bpPhase' = "repacked"
    /\ UNCHANGED <<bpB, bpP, bpSrc, bpFill, bpMid>>

BPNext == BPUnpack \/ BPRepack

\* ---- runs that pack a digit array, then unpack the bytes again
\* the digit arrays tried: every digit below 2^B, a background of all zeros or
\* all ones with one probe digit at any place, of any value
DigitArrays(B, P) ==
    {[x \in 0..(unpacked_bytes(B, P) - 1) |-> IF x = p THEN v ELSE bg] :
        p \in 0..(unpacked_bytes(B, P) - 1), v \in 0..(Pow2(B) - 1),
        bg \in {0, Pow2(B) - 1}}

DigitsInit ==
    /\ bpB \in 2..7
    /\ bpP \in 1..MaxP
    /\ bpSrc \in DigitArrays(bpB, bpP)
    /\ bpFill \in {1, 255}
    /\ bpMid = NoRun
    /\ bpOut = NoRun
    /\ bpPhase = "digits"

BPPack ==
    /\ UNCHANGED notBpVars
    /\ bpPhase = "digits"
    /\ bpMid' = pack_bits(bpB, bpP, bpSrc, Filled(bpP, bpFill))
    /\ bpPhase' = "packed"
    /\ UNCHANGED <<bpB, bpP, bpSrc, bpFill, bpOut>>

BPReunpack ==
    /\ UNCHANGED notBpVars
    /\ bpPhase = "packed"
    /\ bpOut' = unpack_bits(bpB, bpP, bpMid.dst, Filled(unpacked_bytes(bpB, bpP), bpFill))
    /\ bpPhase' = "reunpacked"
    /\ UNCHANGED <<bpB, bpP, bpSrc, bpFill, bpMid>>

DigitsNext == BPPack \/ BPReunpack

BPIdle ==
    /\ bpB = 2 /\ bpP = 1 /\ bpSrc = <<>> /\ bpFill = 0
    /\ bpMid = NoRun /\ bpOut = NoRun /\ bpPhase = "off"

(***************************************************************************)
(* Clock states (src/clocks.cpp).  Times are counted in the state's        *)
(* MaxUnitDuration (100 ns for v1 and v6, 1 us for v7, 1 ms for ULID);     *)
(* clock readings are counted in system_clock::duration, ClockPerUnit of   *)
(* which make one unit.                                                    *)
(***************************************************************************)
Threads == {1, 2}

Variants == {"v1", "v6", "v7", "ulid"}

\* system_clock counts per unit.  Real builds have 100, 1000 or 10^6 (a
\* nanosecond clock) or a fraction (a microsecond clock under v1); 2 is the
\* least ratio with which round<> has to round at all.
ClockPerUnit == 2

\* the readings system_clock::now() may return, in counts since the epoch
MaxNow == 4

Readings == 0..MaxNow

\* get() calls in a run, over all threads
MaxGets == 4

\* readings below last_time that a run may see
MaxJumps == 2

load_once(v) == v # "ulid"

\* 1s in units of MaxUnitDuration
OneSecond(v) ==
    CASE v \in {"v1", "v6"} -> 10000000
      [] v = "v7" -> 1000000
      [] v = "ulid" -> 1000

\* nanoseconds (the unit of a persisted "when") per unit of MaxUnitDuration
NsPerUnit(v) ==
    CASE v \in {"v1", "v6"} -> 100
      [] v = "v7" -> 1000
      [] v = "ulid" -> 1000000

\* C++ integer division: the quotient truncated toward zero
TruncDiv(a, b) == IF a >= 0 THEN a \div b ELSE -((-a) \div b)

\* std::chrono::round<MaxUnitDuration>: to the nearest unit, ties to even
Round(counts) ==
    LET q == counts \div ClockPerUnit
        r == counts % ClockPerUnit
    IN  IF 2 * r < ClockPerUnit THEN q
        ELSE IF 2 * r > ClockPerUnit THEN q + 1
        ELSE IF q % 2 = 0 THEN q ELSE q + 1

\* time_point_cast<nanoseconds>(m_last_time) and back
ToNs(v, t) == t * NsPerUnit(v)

FromNs(v, ns) == TruncDiv(ns, NsPerUnit(v))

\* get_max_adjustment(): the detected clock tick, in counts, rounded to units
get_max_adjustment(tick) ==
    LET ret == Round(tick) IN IF ret > 1 THEN ret ELSE 0

\* the ticks get_clock_tick() may detect: the clock's own count, or a coarser one
ClockTicks == {1, 2 * ClockPerUnit}

(***************************************************************************)
(* tail_t: 80 bits, a uint16_t high and a uint64_t low; low is held as     *)
(* four 16-bit limbs, most significant first.                              *)
(***************************************************************************)
Limb == 65536

ZeroTail == [high |-> 0, low |-> <<0, 0, 0, 0>>]

MaxTail == [high |-> 65535, low |-> <<65535, 65535, 65535, 65535>>]

LowMaxTail == [high |-> 7, low |-> <<65535, 65535, 65535, 65535>>]

\* what fill_random() may leave in the tail (any 80 bits; these are tried)
TailSamples == {ZeroTail, LowMaxTail, MaxTail}

\* ++low on a uint64_t
IncLow(low) ==
    IF low[4] + 1 < Limb THEN <<low[1], low[2], low[3], low[4] + 1>>
    ELSE IF low[3] + 1 < Limb THEN <<low[1], low[2], low[3] + 1, 0>>
    ELSE IF low[2] + 1 < Limb THEN <<low[1], low[2] + 1, 0, 0>>
    ELSE <<(low[1] + 1) % Limb, 0, 0, 0>>

\* tail_t::increment(): if (++low == 0) ++high;
increment(tail) ==
    LET low == IncLow(tail.low)
    IN  [high |-> IF low = <<0, 0, 0, 0>> THEN (tail.high + 1) % Limb ELSE tail.high,
         low |-> low]

RECURSIVE SeqLess(_, _)
SeqLess(a, b) ==
    IF a = <<>> THEN FALSE
    ELSE Head(a) < Head(b) \/ (Head(a) = Head(b) /\ SeqLess(Tail(a), Tail(b)))

\* the order of (tail_high, tail_low)
TailLess(a, b) == SeqLess(<<a.high>> \o a.low, <<b.high>> \o b.low)

(***************************************************************************)
(* The state of one clock state object and of its persistence_holder.      *)
(***************************************************************************)
NewState ==
    [m_last_time |-> 0, m_adjustment |-> 0, m_clock_seq |-> 0, m_tail |-> ZeroTail,
     m_initialized |-> FALSE, m_persistence |-> 0, m_per_thread |-> FALSE]

NoRecord == [none |-> TRUE]

NoResult == [none |-> TRUE]

\* the value of marked in runs that remember no returned value
NoMark == [unwatched |-> TRUE]

\* the record a state hands to store(): uuid_persistence_data / ulid_persistence_data
DataOf(v, s) ==
    [when |-> ToNs(v, s.m_last_time),
     seq |-> IF v = "ulid" THEN 0 ELSE s.m_clock_seq,
     adjustment |-> s.m_adjustment,
     random |-> IF v = "ulid" THEN s.m_tail ELSE ZeroTail]

\* the ranges the random seeds are drawn from, and the seeds tried
SeqSeeds(v) == IF v = "v1" THEN {0, 16383} ELSE {0, 8191}

Mask14(x) == x % 16384

\* a state seeded at the current reading itself
init_new_at_reading(v, s, now, seed, tail) ==
    [s EXCEPT !.m_last_time = Round(now),
              !.m_clock_seq = IF v = "ulid" THEN s.m_clock_seq ELSE seed,
              !.m_tail = IF v = "ulid" THEN tail ELSE s.m_tail,
              !.m_adjustment = 0]

\* init_new(): one second before the current reading, a random disambiguator
init_new(v, s, now, seed, tail) ==
    [s EXCEPT !.m_last_time = Round(now) - OneSecond(v),
              !.m_clock_seq = IF v = "ulid" THEN s.m_clock_seq ELSE seed,
              !.m_tail = IF v = "ulid" THEN tail ELSE s.m_tail,
              !.m_adjustment = 0]

\* load_existing(data)
load_existing(v, s, data) ==
    [s EXCEPT !.m_last_time = FromNs(v, data.when),
              !.m_clock_seq = IF v = "ulid" THEN s.m_clock_seq ELSE Mask14(data.seq),
              !.m_tail = IF v = "ulid" THEN data.random ELSE s.m_tail,
              !.m_adjustment = IF data.adjustment < 0 THEN 0 ELSE data.adjustment]

\* the reading rounded to units and then down to a multiple of max_adjustment
Quantize(now, M) ==
    LET adjusted == Round(now)
    IN  IF M # 0 THEN TruncDiv(adjusted, M) * M ELSE adjusted

\* an exhaustion test that lets the adjustment pass max_adjustment by one
ExhaustedPast(adjustment, M) == adjustment > M

\* the exhaustion test of adjust(): "if (m_adjustment >= m_max_adjustment)"
Exhausted(adjustment, M) == adjustment >= M

\* what adjust() hands back: whether it succeeded, the state it leaves, the values
Adjusted(ok, s, adjusted) ==
    [ok |-> ok, s |-> s, time |-> adjusted + s.m_adjustment]

\* adjust() of a v1 state that keeps its clock_seq when the clock went back
adjust_non_repeatable_same_seq(s, now, M) ==
    LET adjusted == Quantize(now, M)
    IN  IF adjusted < s.m_last_time
        THEN Adjusted(TRUE, [s EXCEPT !.m_adjustment = 0, !.m_last_time = adjusted],
                      adjusted)
        ELSE IF adjusted = s.m_last_time
        THEN IF Exhausted(s.m_adjustment, M)
             THEN Adjusted(FALSE, s, adjusted)
             ELSE Adjusted(TRUE, [s EXCEPT !.m_adjustment = s.m_adjustment + 1], adjusted)
        ELSE Adjusted(TRUE, [s EXCEPT !.m_adjustment = 0, !.m_last_time = adjusted], adjusted)

\* adjust() of a v1 state that holds on to its last_time when the clock went back
adjust_non_repeatable_holding_time(s, now, M) ==
    LET adjusted == Quantize(now, M)
    IN  IF adjusted < s.m_last_time
        THEN Adjusted(TRUE, [s EXCEPT !.m_clock_seq = Mask14(s.m_clock_seq + 1),
                                      !.m_adjustment = 0], s.m_last_time)
        ELSE IF adjusted = s.m_last_time
        THEN IF Exhausted(s.m_adjustment, M)
             THEN Adjusted(FALSE, s, adjusted)
             ELSE Adjusted(TRUE, [s EXCEPT !.m_adjustment = s.m_adjustment + 1], adjusted)
        ELSE Adjusted(TRUE, [s EXCEPT !.m_adjustment = 0, !.m_last_time = adjusted], adjusted)

\* non_repeatable_clock_state::adjust
adjust_non_repeatable(s, now, M) ==
    LET adjusted == Quantize(now, M)
    IN  IF adjusted < s.m_last_time
        THEN Adjusted(TRUE, [s EXCEPT !.m_clock_seq = Mask14(s.m_clock_seq + 1),
                                      !.m_adjustment = 0,
                                      !.m_last_time = adjusted], adjusted)
        ELSE IF adjusted = s.m_last_time
        THEN IF Exhausted(s.m_adjustment, M)
             THEN Adjusted(FALSE, s, adjusted)
             ELSE Adjusted(TRUE, [s EXCEPT !.m_adjustment = s.m_adjustment + 1], adjusted)
        ELSE Adjusted(TRUE, [s EXCEPT !.m_adjustment = 0, !.m_last_time = adjusted], adjusted)

\* adjust() of a monotonic state that hands out the same clock_seq again once
\* the adjustment is spent
adjust_monotonic_same_seq(s, now, M, after_wait, seed) ==
    LET adjusted == Quantize(now, M)
    IN  IF adjusted < s.m_last_time
        THEN Adjusted(TRUE, [s EXCEPT !.m_clock_seq = seed,
                                      !.m_adjustment = 0,
                                      !.m_last_time = adjusted], adjusted)
        ELSE IF adjusted = s.m_last_time
        THEN IF Exhausted(s.m_adjustment, M)
             THEN Adjusted(TRUE, s, adjusted)
             ELSE Adjusted(TRUE, [s EXCEPT !.m_adjustment = s.m_adjustment + 1], adjusted)
        ELSE Adjusted(TRUE, [s EXCEPT !.m_adjustment = 0,
                                      !.m_last_time = adjusted,
                                      !.m_clock_seq = IF after_wait THEN seed
                                                      ELSE s.m_clock_seq], adjusted)

\* adjust() of a monotonic state that lets clock_seq wrap to zero and never
\* asks for another reading
adjust_monotonic_wrapping(s, now, M, after_wait, seed) ==
    LET adjusted == Quantize(now, M)
    IN  IF adjusted < s.m_last_time
        THEN Adjusted(TRUE, [s EXCEPT !.m_clock_seq = seed,
                                      !.m_adjustment = 0,
                                      !.m_last_time = adjusted], adjusted)
        ELSE IF adjusted = s.m_last_time
        THEN IF Exhausted(s.m_adjustment, M)
             THEN Adjusted(TRUE, [s EXCEPT !.m_clock_seq = Mask14(s.m_clock_seq + 1)],
                           adjusted)
             ELSE Adjusted(TRUE, [s EXCEPT !.m_adjustment = s.m_adjustment + 1], adjusted)
        ELSE Adjusted(TRUE, [s EXCEPT !.m_adjustment = 0,
                                      !.m_last_time = adjusted,
                                      !.m_clock_seq = IF after_wait THEN seed
                                                      ELSE s.m_clock_seq], adjusted)

\* adjust() of a monotonic state that keeps its clock_seq on every new tick,
\* also on one that follows a wait
adjust_monotonic_unseeded(s, now, M, after_wait, seed) ==
    LET adjusted == Quantize(now, M)
    IN  IF adjusted < s.m_last_time
        THEN Adjusted(TRUE, [s EXCEPT !.m_clock_seq = seed,
                                      !.m_adjustment = 0,
                                      !.m_last_time = adjusted], adjusted)
        ELSE IF adjusted = s.m_last_time
        THEN IF Exhausted(s.m_adjustment, M)
             THEN LET new_clock_seq == Mask14(s.m_clock_seq + 1)
                  IN  IF new_clock_seq = 0
                      THEN Adjusted(FALSE, s, adjusted)
                      ELSE Adjusted(TRUE, [s EXCEPT !.m_clock_seq = new_clock_seq], adjusted)
             ELSE Adjusted(TRUE, [s EXCEPT !.m_adjustment = s.m_adjustment + 1], adjusted)
        ELSE Adjusted(TRUE, [s EXCEPT !.m_adjustment = 0, !.m_last_time = adjusted],
                      adjusted)

\* adjust() of a monotonic state that tests for the wrap of clock_seq before it
\* compares the ticks
adjust_monotonic_wrap_first(s, now, M, after_wait, seed) ==
    LET adjusted == Quantize(now, M)
    IN  IF Exhausted(s.m_adjustment, M) /\ Mask14(s.m_clock_seq + 1) = 0
        THEN Adjusted(FALSE, s, adjusted)
        ELSE IF adjusted < s.m_last_time
        THEN Adjusted(TRUE, [s EXCEPT !.m_clock_seq = seed,
                                      !.m_adjustment = 0,
                                      !.m_last_time = adjusted], adjusted)
        ELSE IF adjusted = s.m_last_time
        THEN IF Exhausted(s.m_adjustment, M)
             THEN Adjusted(TRUE, [s EXCEPT !.m_clock_seq = Mask14(s.m_clock_seq + 1)],
                           adjusted)
             ELSE Adjusted(TRUE, [s EXCEPT !.m_adjustment = s.m_adjustment + 1], adjusted)
        ELSE Adjusted(TRUE, [s EXCEPT !.m_adjustment = 0,
                                      !.m_last_time = adjusted,
                                      !.m_clock_seq = IF after_wait THEN seed
                                                      ELSE s.m_clock_seq], adjusted)

\* monotonic_clock_state::adjust; seed is what the random generator would give
adjust_monotonic(s, now, M, after_wait, seed) ==
    LET adjusted == Quantize(now, M)
    IN  IF adjusted < s.m_last_time
        THEN Adjusted(TRUE, [s EXCEPT !.m_clock_seq = seed,
                                      !.m_adjustment = 0,
                                      !.m_last_time = adjusted], adjusted)
        ELSE IF adjusted = s.m_last_time
        THEN IF Exhausted(s.m_adjustment, M)
             THEN LET new_clock_seq == Mask14(s.m_clock_seq + 1)
                  IN  IF new_clock_seq = 0
                      THEN Adjusted(FALSE, s, adjusted)
                      ELSE Adjusted(TRUE, [s EXCEPT !.m_clock_seq = new_clock_seq], adjusted)
             ELSE Adjusted(TRUE, [s EXCEPT !.m_adjustment = s.m_adjustment + 1], adjusted)
        ELSE Adjusted(TRUE, [s EXCEPT !.m_adjustment = 0,
                                      !.m_last_time = adjusted,
                                      !.m_clock_seq = IF after_wait THEN seed
                                                      ELSE s.m_clock_seq], adjusted)

\* ulid_clock_state::adjust; tail is what fill_random() would leave
adjust_ulid(s, now, M, tail) ==
    LET adjusted == Quantize(now, M)
    IN  IF adjusted < s.m_last_time
        THEN Adjusted(TRUE, [s EXCEPT !.m_tail = tail,
                                      !.m_adjustment = 0,
                                      !.m_last_time = adjusted], adjusted)
        ELSE IF adjusted = s.m_last_time
        THEN IF Exhausted(s.m_adjustment, M)
             THEN Adjusted(TRUE, [s EXCEPT !.m_tail = increment(s.m_tail)], adjusted)
             ELSE Adjusted(TRUE, [s EXCEPT !.m_adjustment = s.m_adjustment + 1,
                                           !.m_tail = tail], adjusted)
        ELSE Adjusted(TRUE, [s EXCEPT !.m_adjustment = 0,
                                      !.m_last_time = adjusted,
                                      !.m_tail = tail], adjusted)

adjust(v, s, now, M, after_wait, seed, tail) ==
    CASE v = "v1" -> adjust_non_repeatable(s, now, M)
      [] v \in {"v6", "v7"} -> adjust_monotonic(s, now, M, after_wait, seed)
      [] v = "ulid" -> adjust_ulid(s, now, M, tail)

\* what get() hands to its caller
ResultOf(v, a) ==
    [time |-> a.time,
     seq |-> IF v = "ulid" THEN 0 ELSE a.s.m_clock_seq,
     tail |-> IF v = "ulid" THEN a.s.m_tail ELSE ZeroTail]


(***************************************************************************)
(* persistence_holder                                                      *)
(***************************************************************************)
\* persistence_holder::set: whether the backend changed, and the holder it leaves
holder_set(s, pers) ==
    IF s.m_persistence = pers
    THEN [changed |-> FALSE, s |-> s]
    ELSE [changed |-> TRUE,
          s |-> [s EXCEPT !.m_persistence = pers, !.m_per_thread = (pers # 0)]]

\* persistence_holder::load: m_per_thread && m_per_thread->load(data)
holder_load(s, rec) == s.m_per_thread /\ rec # NoRecord

\* persistence_holder::save: stores through the handle, when there is one
holder_save(v, s, rec) == IF s.m_per_thread THEN DataOf(v, s) ELSE rec

\* system_clock::now() returning now
ReadClock(now) ==
    /\ clock' = now
    /\ went_back' = (went_back \/ now < clock)

(***************************************************************************)
(* get_clock_v1 / v6 / v7 / ulid on thread t, step by step                 *)
(***************************************************************************)
\* the calls of get_clock_*() begun so far
Started ==
    LET n(t) == ngets[t] + (IF pc[t] = "idle" THEN 0 ELSE 1)
    IN  n(1) + n(2)

\* "auto * current_pers = g_clock_persistence.get(); ...::instance();"
Begin(t) ==
    /\ pc[t] = "idle"
    /\ Started < MaxGets
    /\ current_pers' = [current_pers EXCEPT ![t] = g_clock_persistence]
    /\ pc' = [pc EXCEPT ![t] = "set_persistence"]
    /\ UNCHANGED <<variant, max_adjustment, g_clock_persistence, stored, lock_holder,
                   state, wait_now, clock, went_back, jumps, result, ngets, last_get,
                   marked>>
    /\ UNCHANGED notClockVars

\* clock_state_base::set_persistence(current_pers)
SetPersistence(t) ==
    /\ pc[t] = "set_persistence"
    /\ LET h == holder_set(state[t], current_pers[t])
           attach == IF load_once(variant) THEN h.changed \/ ~h.s.m_initialized
                     ELSE ~h.s.m_initialized
           locks == load_once(variant) /\ attach /\ h.s.m_per_thread
           loads == load_once(variant) /\ attach /\ holder_load(h.s, stored)
           fresh == attach /\ ~loads
       IN  /\ locks => lock_holder = 0
           /\ \E now \in (IF fresh THEN Readings ELSE {clock}),
                 seed \in (IF fresh /\ variant # "ulid" THEN SeqSeeds(variant) ELSE {0}),
                 tail \in (IF fresh /\ variant = "ulid" THEN TailSamples ELSE {ZeroTail}) :
                 LET s1 == IF loads THEN load_existing(variant, h.s, stored)
                           ELSE IF fresh THEN init_new(variant, h.s, now, seed, tail)
                           ELSE h.s
                     s2 == IF attach THEN [s1 EXCEPT !.m_initialized = TRUE] ELSE s1
                 IN  /\ state' = [state EXCEPT ![t] = s2]
                     /\ stored' = IF fresh /\ load_once(variant)
                                  THEN holder_save(variant, s2, stored)
                                  ELSE stored
                     /\ ReadClock(now)
    /\ pc' = [pc EXCEPT ![t] = "get"]
    /\ UNCHANGED <<variant, max_adjustment, g_clock_persistence, lock_holder,
                   current_pers, wait_now, jumps, result, ngets, last_get, marked>>
    /\ UNCHANGED notClockVars

\* one pass of the loop of get(), inside mutate(): adjust with the reading now,
\* starting from the state s0; on success store, unlock and return
Attempt(t, s0, now, after_wait) ==
    \E seed \in (IF variant \in {"v6", "v7"} THEN SeqSeeds(variant) ELSE {0}),
       tail \in (IF variant = "ulid" THEN TailSamples ELSE {ZeroTail}) :
        LET a == adjust(variant, s0, now, max_adjustment, after_wait, seed, tail)
            back == Quantize(now, max_adjustment) < s0.m_last_time
            res == ResultOf(variant, a)
        IN  /\ back => jumps < MaxJumps
            /\ jumps' = IF back THEN jumps + 1 ELSE jumps
            /\ ReadClock(now)
            /\ state' = [state EXCEPT ![t] = a.s]
            /\ IF a.ok
               THEN /\ stored' = holder_save(variant, a.s, stored)
                    /\ lock_holder' = 0
                    /\ pc' = [pc EXCEPT ![t] = "idle"]
                    /\ result' = [result EXCEPT ![t] = res]
                    /\ ngets' = [ngets EXCEPT ![t] = ngets[t] + 1]
                    /\ last_get' = [by |-> t, val |-> res]
                    /\ marked' \in (IF marked = NoResult THEN {NoResult, res} ELSE {marked})
                    /\ UNCHANGED wait_now
               ELSE /\ lock_holder' = IF s0.m_per_thread THEN t ELSE lock_holder
                    /\ pc' = [pc EXCEPT ![t] = "wait"]
                    /\ wait_now' = [wait_now EXCEPT ![t] = now]
                    /\ UNCHANGED <<stored, result, ngets, last_get, marked>>

\* get(): mutate() locks the holder, a ULID state loads the stored record, and
\* the first reading is taken
Get(t) ==
    /\ pc[t] = "get"
    /\ state[t].m_per_thread => lock_holder = 0
    /\ LET s0 == IF ~load_once(variant) /\ holder_load(state[t], stored)
                 THEN load_existing(variant, state[t], stored)
                 ELSE state[t]
       IN  \E now \in Readings : Attempt(t, s0, now, FALSE)
    /\ UNCHANGED <<variant, max_adjustment, g_clock_persistence, current_pers>>
    /\ UNCHANGED notClockVars

\* get() after a failed adjust(): next_distinct_now(now), then adjust again
GetRetry(t) ==
    /\ pc[t] = "wait"
    /\ \E now \in Readings \ {wait_now[t]} : Attempt(t, state[t], now, TRUE)
    /\ UNCHANGED <<variant, max_adjustment, g_clock_persistence, current_pers>>
    /\ UNCHANGED notClockVars

\* set_time_based_persistence(pers) and its like: the backend is installed, or
\* removed with what it stores
SetTimeBasedPersistence ==
    /\ \E pers \in {0, 1} \ {g_clock_persistence} : g_clock_persistence' = pers
    /\ UNCHANGED <<variant, max_adjustment, stored, lock_holder, state, pc,
                   current_pers, wait_now, clock, went_back, jumps, result, ngets,
                   last_get, marked>>
    /\ UNCHANGED notClockVars

\* records a backend may hold from an earlier run, besides none
StoredSamples(v) ==
    {NoRecord,
     [when |-> ToNs(v, 1), seq |-> IF v = "ulid" THEN 0 ELSE 16383, adjustment |-> 0,
      random |-> IF v = "ulid" THEN MaxTail ELSE ZeroTail],
     [when |-> ToNs(v, 2), seq |-> IF v = "ulid" THEN 0 ELSE 65534, adjustment |-> -1,
      random |-> IF v = "ulid" THEN LowMaxTail ELSE ZeroTail]}

ClockInitCommon ==
    /\ variant \in Variants
    /\ max_adjustment \in {get_max_adjustment(tick) : tick \in ClockTicks}
    /\ lock_holder = 0
    /\ state = [t \in Threads |-> NewState]
    /\ pc = [t \in Threads |-> "idle"]
    /\ current_pers = [t \in Threads |-> 0]
    /\ wait_now = [t \in Threads |-> 0]
    /\ clock = 0
    /\ went_back = FALSE
    /\ jumps = 0
    /\ result = [t \in Threads |-> NoResult]
    /\ ngets = [t \in Threads |-> 0]
    /\ last_get = [by |-> 0, val |-> NoResult]

\* one thread, with or without a backend, which may hold a record already
ClockInit ==
    /\ ClockInitCommon
    /\ marked = NoResult
    /\ g_clock_persistence \in {0, 1}
    /\ stored \in (IF g_clock_persistence = 1 THEN StoredSamples(variant) ELSE {NoRecord})

ClockIdle ==
    /\ variant = "v1" /\ max_adjustment = 0 /\ g_clock_persistence = 0
    /\ stored = NoRecord /\ lock_holder = 0
    /\ state = [t \in Threads |-> NewState]
    /\ pc = [t \in Threads |-> "off"]
    /\ current_pers = [t \in Threads |-> 0]
    /\ wait_now = [t \in Threads |-> 0]
    /\ clock = 0 /\ went_back = FALSE /\ jumps = 0
    /\ result = [t \in Threads |-> NoResult]
    /\ ngets = [t \in Threads |-> 0]
    /\ last_get = [by |-> 0, val |-> NoResult]
    /\ marked = NoResult

(***************************************************************************)
(* fork_handler.h: object_buffer, reset_on_fork_singleton,                 *)
(* reset_on_fork_thread_local.  An object is the id-th one constructed in  *)
(* the run and counts how often it was used.                               *)
(***************************************************************************)
\* instance() calls a thread makes
MaxCalls == 3

\* constructor calls that throw in a run
MaxThrows == 1

\* forks a run follows into the child
MaxForks == 1

\* uses of one object
MaxUses == 2

\* object_buffer() = default
EmptyBuffer == [m_memory_initialized |-> FALSE, id |-> 0, uses |-> 0]

\* the buffer once the constructor has built the id-th object in it
Constructed(id) == [m_memory_initialized |-> TRUE, id |-> id, uses |-> 0]

\* a reset that leaves the buffer marked while the constructor runs
reset_begin_marked(buf) == buf

\* object_buffer::reset up to the call of the constructor: the old object, if
\* any, is destroyed and the buffer marked as holding none
reset_begin(buf) == [buf EXCEPT !.m_memory_initialized = FALSE]

\* a reset that abandons the object in the buffer
DestroysNothing(buf) == {}

\* the objects object_buffer::reset or ~object_buffer destroys: the one in the
\* buffer if m_memory_initialized says there is one
Destroys(buf) == IF buf.m_memory_initialized THEN {buf.id} ELSE {}

\* what a caller of instance() gets: the object in the buffer as it is now
Deref(buf) == [id |-> buf.id, uses |-> buf.uses]

NoObject == [id |-> 0, uses |-> 0]

\* whether the next constructor call may throw
MayThrow == IF nthrows < MaxThrows THEN BOOLEAN ELSE {FALSE}

\* ---- reset_on_fork_singleton::instance_with_constructor, thread t
\* "static int registered = ..." on the first call of all, then
\* "if (!s_inst.m_initialized_in_this_process.test(acquire))"
SgTest(t) ==
    /\ sg_pc[t] = "idle"
    /\ calls[t] < MaxCalls
    /\ calls' = [calls EXCEPT ![t] = calls[t] + 1]
    /\ registered' = TRUE
    /\ sg_pc' = [sg_pc EXCEPT ![t] = IF m_initialized_in_this_process THEN "return"
                                     ELSE "lock"]
    /\ UNCHANGED <<m_initialized_in_this_process, m_mutex, m_obj, sg_ret, sg_early,
                   s_need_to_reset, obj, tl_init, tl_alive, tl_ret, nctor, nthrows,
                   forks, at_fork, since_fork>>
    /\ UNCHANGED <<tl_registered, destroyed>>
    /\ UNCHANGED m_locked_for_fork
    /\ UNCHANGED notForkVars

\* "std::lock_guard<std::mutex> lock(s_inst.m_mutex);"
SgLock(t) ==
    /\ sg_pc[t] = "lock"
    /\ m_mutex = 0
    /\ m_mutex' = t
    /\ sg_pc' = [sg_pc EXCEPT ![t] = "recheck"]
    /\ UNCHANGED <<m_initialized_in_this_process, m_obj, sg_ret, sg_early,
                   s_need_to_reset, obj, tl_init, tl_alive, tl_ret, calls, nctor,
                   nthrows, forks, at_fork, since_fork>>
    /\ UNCHANGED <<registered, tl_registered, destroyed>>
    /\ UNCHANGED m_locked_for_fork
    /\ UNCHANGED notForkVars

\* the second test, made with the mutex held, constructs whatever it finds
SgRecheckSkipped(t) ==
    /\ sg_pc[t] = "recheck"
    /\ sg_pc' = [sg_pc EXCEPT ![t] = "reset"]
    /\ UNCHANGED <<m_initialized_in_this_process, m_mutex, m_obj, sg_ret, sg_early,
                   s_need_to_reset, obj, tl_init, tl_alive, tl_ret, calls, nctor,
                   nthrows, forks, at_fork, since_fork>>
    /\ UNCHANGED <<registered, tl_registered, destroyed>>
    /\ UNCHANGED m_locked_for_fork
    /\ UNCHANGED notForkVars

\* "if (!s_inst.m_initialized_in_this_process.test(relaxed))", mutex held
SgRecheck(t) ==
    /\ sg_pc[t] = "recheck"
    /\ sg_pc' = [sg_pc EXCEPT ![t] = IF m_initialized_in_this_process THEN "unlock"
                                     ELSE "reset"]
    /\ UNCHANGED <<m_initialized_in_this_process, m_mutex, m_obj, sg_ret, sg_early,
                   s_need_to_reset, obj, tl_init, tl_alive, tl_ret, calls, nctor,
                   nthrows, forks, at_fork, since_fork>>
    /\ UNCHANGED <<registered, tl_registered, destroyed>>
    /\ UNCHANGED m_locked_for_fork
    /\ UNCHANGED notForkVars

\* "s_inst.m_obj.reset(constructor)", up to the call of the constructor
SgResetBegin(t) ==
    /\ sg_pc[t] = "reset"
    /\ m_obj' = reset_begin(m_obj)
    /\ destroyed' = destroyed \cup Destroys(m_obj)
    /\ sg_pc' = [sg_pc EXCEPT ![t] = "construct"]
    /\ UNCHANGED <<m_initialized_in_this_process, m_mutex, sg_ret, sg_early,
                   s_need_to_reset, obj, tl_init, tl_alive, tl_ret, calls, nctor,
                   nthrows, forks, at_fork, since_fork>>
    /\ UNCHANGED <<registered, tl_registered>>
    /\ m_locked_for_fork' = (m_locked_for_fork /\ Destroys(m_obj) = {})
    /\ UNCHANGED notForkVars

\* the constructor returns, or throws: the lock_guard then unlocks and the
\* exception leaves instance()
SgConstruct(t) ==
    /\ sg_pc[t] = "construct"
    /\ \E throws \in MayThrow :
           IF throws
           THEN /\ nthrows' = nthrows + 1
                /\ m_mutex' = 0
                /\ sg_pc' = [sg_pc EXCEPT ![t] = "idle"]
                /\ UNCHANGED <<m_obj, nctor, m_locked_for_fork>>
           ELSE /\ m_obj' = Constructed(nctor + 1)
                /\ nctor' = nctor + 1
                /\ m_locked_for_fork' = FALSE
                /\ sg_pc' = [sg_pc EXCEPT ![t] = "set_flag"]
                /\ UNCHANGED <<m_mutex, nthrows>>
    /\ UNCHANGED <<m_initialized_in_this_process, sg_ret, sg_early, s_need_to_reset,
                   obj, tl_init, tl_alive, tl_ret, calls, forks, at_fork, since_fork>>
    /\ UNCHANGED <<registered, tl_registered, destroyed>>
    /\ UNCHANGED notForkVars

\* "s_inst.m_initialized_in_this_process.test_and_set(release);"
SgSetFlag(t) ==
    /\ sg_pc[t] = "set_flag"
    /\ m_initialized_in_this_process' = TRUE
    /\ sg_pc' = [sg_pc EXCEPT ![t] = "unlock"]
    /\ UNCHANGED <<m_mutex, m_obj, sg_ret, sg_early, s_need_to_reset, obj, tl_init,
                   tl_alive, tl_ret, calls, nctor, nthrows, forks, at_fork,
                   since_fork>>
    /\ UNCHANGED <<registered, tl_registered, destroyed>>
    /\ UNCHANGED m_locked_for_fork
    /\ UNCHANGED notForkVars

\* the lock_guard goes out of scope
SgUnlock(t) ==
    /\ sg_pc[t] = "unlock"
    /\ m_mutex' = 0
    /\ sg_pc' = [sg_pc EXCEPT ![t] = "return"]
    /\ UNCHANGED <<m_initialized_in_this_process, m_obj, sg_ret, sg_early,
                   s_need_to_reset, obj, tl_init, tl_alive, tl_ret, calls, nctor,
                   nthrows, forks, at_fork, since_fork>>
    /\ UNCHANGED <<registered, tl_registered, destroyed>>
    /\ UNCHANGED m_locked_for_fork
    /\ UNCHANGED notForkVars

\* "return *s_inst.m_obj;"
SgReturn(t) ==
    /\ sg_pc[t] = "return"
    /\ sg_ret' = [sg_ret EXCEPT ![t] = Deref(m_obj)]
    /\ sg_early' = (sg_early \/ ~m_obj.m_memory_initialized)
    /\ sg_pc' = [sg_pc EXCEPT ![t] = "idle"]
    /\ since_fork' = since_fork + 1
    /\ UNCHANGED <<m_initialized_in_this_process, m_mutex, m_obj, s_need_to_reset,
                   obj, tl_init, tl_alive, tl_ret, calls, nctor, nthrows, forks,
                   at_fork>>
    /\ UNCHANGED <<registered, tl_registered, destroyed>>
    /\ UNCHANGED m_locked_for_fork
    /\ UNCHANGED notForkVars

\* ---- reset_on_fork_singleton: the handlers pthread_atfork() registered
\* the child handler leaves the mutex as it found it
sg_after_fork_in_child_same_mutex(mutex, flag) ==
    [m_mutex |-> mutex, m_initialized_in_this_process |-> FALSE]

\* after_fork_in_child(): "new (&s_inst.m_mutex) std::mutex;" and
\* "s_inst.m_initialized_in_this_process.clear(relaxed);"; m_obj is not touched
sg_after_fork_in_child(mutex, flag) ==
    [m_mutex |-> 0, m_initialized_in_this_process |-> FALSE]

\* a pre-fork hook that calls the object's hook without taking the mutex
SgPrepareForkUnlocked(t) ==
    /\ sg_pc[t] = "idle"
    /\ registered
    /\ forks < MaxForks
    /\ m_locked_for_fork' = (m_obj.m_memory_initialized \/ m_locked_for_fork)
    /\ sg_pc' = [sg_pc EXCEPT ![t] = "in_fork"]
    /\ UNCHANGED <<m_initialized_in_this_process, m_mutex, m_obj, sg_ret, sg_early,
                   s_need_to_reset, obj, tl_init, tl_alive, tl_ret, calls, nctor,
                   nthrows, forks, at_fork, since_fork>>
    /\ UNCHANGED <<registered, tl_registered, destroyed>>
    /\ UNCHANGED notForkVars

\* thread t calls fork(): prepare_fork_in_parent() takes the mutex, waiting for
\* a thread that holds it, and then, "if (s_inst.m_obj)", calls the object's
\* prepare_fork_in_parent()
SgPrepareFork(t) ==
    /\ sg_pc[t] = "idle"
    /\ registered
    /\ forks < MaxForks
    /\ m_mutex = 0
    /\ m_mutex' = t
    /\ m_locked_for_fork' = (m_obj.m_memory_initialized \/ m_locked_for_fork)
    /\ sg_pc' = [sg_pc EXCEPT ![t] = "in_fork"]
    /\ UNCHANGED <<m_initialized_in_this_process, m_obj, sg_ret, sg_early,
                   s_need_to_reset, obj, tl_init, tl_alive, tl_ret, calls, nctor,
                   nthrows, forks, at_fork, since_fork>>
    /\ UNCHANGED <<registered, tl_registered, destroyed>>
    /\ UNCHANGED notForkVars

\* fork() returns in the parent: after_fork_in_parent() calls the object's
\* after_fork_in_parent(), "if (s_inst.m_obj)", and then unlocks the mutex
SgAfterForkInParent(t) ==
    /\ sg_pc[t] = "in_fork"
    /\ m_locked_for_fork' = (~m_obj.m_memory_initialized /\ m_locked_for_fork)
    /\ m_mutex' = 0
    /\ sg_pc' = [sg_pc EXCEPT ![t] = "idle"]
    /\ UNCHANGED <<m_initialized_in_this_process, m_obj, sg_ret, sg_early,
                   s_need_to_reset, obj, tl_init, tl_alive, tl_ret, calls, nctor,
                   nthrows, forks, at_fork, since_fork>>
    /\ UNCHANGED <<registered, tl_registered, destroyed>>
    /\ UNCHANGED notForkVars

\* the run goes on in the child: it has a copy of the memory, the mutex held
\* included, and thread t alone; after_fork_in_child() runs before fork()
\* returns
SgAfterForkInChild(t) ==
    /\ sg_pc[t] = "in_fork"
    /\ LET h == sg_after_fork_in_child(m_mutex, m_initialized_in_this_process)
       IN  /\ m_mutex' = h.m_mutex
           /\ m_initialized_in_this_process' = h.m_initialized_in_this_process
    /\ sg_pc' = [u \in Threads |-> IF u = t THEN "idle" ELSE "gone"]
    /\ forks' = forks + 1
    /\ at_fork' = [obj |-> m_obj, nctor |-> nctor]
    /\ since_fork' = 0
    /\ UNCHANGED <<m_obj, sg_ret, sg_early, s_need_to_reset, obj, tl_init, tl_alive,
                   tl_ret, calls, nctor, nthrows>>
    /\ UNCHANGED <<registered, tl_registered, destroyed>>
    /\ UNCHANGED m_locked_for_fork
    /\ UNCHANGED notForkVars

\* thread t forks before any instance() call was made, so that no handler is
\* registered, and the run goes on in the child
SgForkUnregistered(t) ==
    /\ sg_pc[t] = "idle"
    /\ ~registered
    /\ forks < MaxForks
    /\ sg_pc' = [u \in Threads |-> IF u = t THEN "idle" ELSE "gone"]
    /\ forks' = forks + 1
    /\ at_fork' = [obj |-> m_obj, nctor |-> nctor]
    /\ since_fork' = 0
    /\ UNCHANGED <<m_initialized_in_this_process, m_mutex, m_obj, sg_ret, sg_early,
                   s_need_to_reset, obj, tl_init, tl_alive, tl_ret, calls, nctor,
                   nthrows>>
    /\ UNCHANGED <<registered, tl_registered, destroyed>>
    /\ UNCHANGED m_locked_for_fork
    /\ UNCHANGED notForkVars

\* ---- reset_on_fork_thread_local
\* what after_fork_in_child() leaves in s_need_to_reset
after_fork_in_child_unset(flag) == flag

\* after_fork_in_child(): "s_need_to_reset = true;"
after_fork_in_child(flag) == TRUE

\* instance_with_constructor() on a thread whose buffer is buf: the thread_local
\* is initialized on the thread's first call, then reset if s_need_to_reset;
\* n objects were constructed before, throws1 / throws2 tell whether the
\* constructor throws in the initialization / in the reset
instance_with_constructor(buf, inited, need_reset, n, throws1, throws2) ==
    IF ~inited /\ throws1
    THEN [threw |-> TRUE, buf |-> buf, inited |-> FALSE, n |-> n, gone |-> {}]
    ELSE LET buf1 == IF inited THEN buf ELSE Constructed(n + 1)
             n1 == IF inited THEN n ELSE n + 1
         IN  IF ~need_reset
             THEN [threw |-> FALSE, buf |-> buf1, inited |-> TRUE, n |-> n1,
                   gone |-> {}]
             ELSE IF throws2
             THEN [threw |-> TRUE, buf |-> reset_begin(buf1), inited |-> TRUE,
                   n |-> n1, gone |-> Destroys(buf1)]
             ELSE [threw |-> FALSE, buf |-> Constructed(n1 + 1), inited |-> TRUE,
                   n |-> n1 + 1, gone |-> Destroys(buf1)]

\* thread t calls instance()
TlInstance(t) ==
    /\ tl_alive[t]
    /\ calls[t] < MaxCalls
    /\ calls' = [calls EXCEPT ![t] = calls[t] + 1]
    /\ \E throws1 \in (IF tl_init[t] THEN {FALSE} ELSE MayThrow),
          throws2 \in (IF s_need_to_reset THEN MayThrow ELSE {FALSE}) :
           LET r == instance_with_constructor(obj[t], tl_init[t], s_need_to_reset,
                                              nctor, throws1, throws2)
           IN  /\ obj' = [obj EXCEPT ![t] = r.buf]
               /\ tl_init' = [tl_init EXCEPT ![t] = r.inited]
               /\ nctor' = r.n
               /\ nthrows' = IF r.threw THEN nthrows + 1 ELSE nthrows
               /\ tl_ret' = IF r.threw THEN tl_ret
                            ELSE [tl_ret EXCEPT ![t] = Deref(r.buf)]
               /\ since_fork' = IF r.threw THEN since_fork ELSE since_fork + 1
               /\ destroyed' = destroyed \cup r.gone
    /\ tl_registered' = TRUE
    /\ UNCHANGED <<m_initialized_in_this_process, m_mutex, m_obj, sg_pc, sg_ret,
                   sg_early, s_need_to_reset, tl_alive, forks, at_fork>>
    /\ UNCHANGED registered
    /\ UNCHANGED m_locked_for_fork
    /\ UNCHANGED notForkVars

\* thread t uses the object instance() gave it
TlUse(t) ==
    /\ tl_alive[t]
    /\ tl_ret[t] # NoObject
    /\ obj[t].m_memory_initialized
    /\ obj[t].uses < MaxUses
    /\ obj' = [obj EXCEPT ![t].uses = obj[t].uses + 1]
    /\ UNCHANGED <<m_initialized_in_this_process, m_mutex, m_obj, sg_pc, sg_ret,
                   sg_early, s_need_to_reset, tl_init, tl_alive, tl_ret, calls, nctor,
                   nthrows, forks, at_fork, since_fork>>
    /\ UNCHANGED <<registered, tl_registered, destroyed>>
    /\ UNCHANGED m_locked_for_fork
    /\ UNCHANGED notForkVars

\* thread t forks and the run goes on in the child: only t exists there, with a
\* copy of its memory, and the child hook, if registered, has run
TlFork(t) ==
    /\ tl_alive[t]
    /\ forks < MaxForks
    /\ forks' = forks + 1
    /\ s_need_to_reset' = IF tl_registered THEN after_fork_in_child(s_need_to_reset)
                           ELSE s_need_to_reset
    /\ tl_alive' = [u \in Threads |-> u = t]
    /\ at_fork' = [obj |-> obj[t], nctor |-> nctor]
    /\ since_fork' = 0
    /\ UNCHANGED <<m_initialized_in_this_process, m_mutex, m_obj, sg_pc, sg_ret,
                   sg_early, obj, tl_init, tl_ret, calls, nctor, nthrows>>
    /\ UNCHANGED <<registered, tl_registered, destroyed>>
    /\ UNCHANGED m_locked_for_fork
    /\ UNCHANGED notForkVars

ForkInit ==
    /\ m_initialized_in_this_process = FALSE
    /\ m_mutex = 0
    /\ m_obj = EmptyBuffer
    /\ sg_pc = [t \in Threads |-> "idle"]
    /\ sg_ret = [t \in Threads |-> NoObject]
    /\ sg_early = FALSE
    /\ s_need_to_reset = FALSE
    /\ obj = [t \in Threads |-> EmptyBuffer]
    /\ tl_init = [t \in Threads |-> FALSE]
    /\ tl_alive = [t \in Threads |-> TRUE]
    /\ tl_ret = [t \in Threads |-> NoObject]
    /\ calls = [t \in Threads |-> 0]
    /\ nctor = 0
    /\ nthrows = 0
    /\ forks = 0
    /\ at_fork = [obj |-> EmptyBuffer, nctor |-> 0]
    /\ since_fork = 0
    /\ registered = FALSE
    /\ tl_registered = FALSE
    /\ destroyed = {}
    /\ m_locked_for_fork = FALSE

\* the singletons, in runs that do not use them
ForkIdle ==
    /\ m_initialized_in_this_process = FALSE /\ m_mutex = 0 /\ m_obj = EmptyBuffer
    /\ sg_pc = [t \in Threads |-> "off"]
    /\ sg_ret = [t \in Threads |-> NoObject]
    /\ sg_early = FALSE /\ s_need_to_reset = FALSE
    /\ obj = [t \in Threads |-> EmptyBuffer]
    /\ tl_init = [t \in Threads |-> FALSE]
    /\ tl_alive = [t \in Threads |-> FALSE]
    /\ tl_ret = [t \in Threads |-> NoObject]
    /\ calls = [t \in Threads |-> 0]
    /\ nctor = 0 /\ nthrows = 0 /\ forks = 0
    /\ at_fork = [obj |-> EmptyBuffer, nctor |-> 0]
    /\ since_fork = 0
    /\ registered = FALSE
    /\ tl_registered = FALSE
    /\ destroyed = {}
    /\ m_locked_for_fork = FALSE

(***************************************************************************)
(* The persistence protocol (src/clocks.cpp: persistence_holder,           *)
(* clock_state_base::set_persistence and mutate, set_*_persistence), call  *)
(* by call.  Backends are numbered, 0 is nullptr; a per_thread handle is   *)
(* its index in handles, 0 is nullptr.  The records stored and the clock   *)
(* values are left out here: a backend either holds a record or none.      *)
(***************************************************************************)
Backends == {1, 2}

\* get_clock_*() calls in a run, over all threads
MaxGenerations == 3

\* set_*_persistence() calls in a run
MaxInstalls == 2

\* calls into a backend that throw in a run
MaxFailures == 1

Kinds == {"uuid", "ulid"}

\* a handle get_for_current_thread() has just returned
NewHandle(b, t) ==
    [pers |-> b, by |-> t, locks |-> 0, unlocks |-> 0, loads |-> 0, stores |-> 0,
     closes |-> 0]

\* persistence_holder() and clock_state_base(): no backend, no handle
NewHolder == [m_persistence |-> 0, m_per_thread |-> 0, m_initialized |-> FALSE]

\* a reference count after a call that leaves it as it was
sub_ref_skipped(r) == r

\* add_ref() / sub_ref() on a backend whose calls so far are r
add_ref(r) == [r EXCEPT !.add_ref = @ + 1]

sub_ref(r) == [r EXCEPT !.sub_ref = @ + 1]

\* a set() that goes on to the new backend with the old handle still open
set_first_call_without_close(handle, pers) == IF pers # 0 THEN "add_ref" ELSE "sub_ref"

\* persistence_holder::set once the backends differ: the first call it makes
set_first_call(handle, pers) ==
    IF handle # 0 THEN "close"
    ELSE IF pers # 0 THEN "add_ref" ELSE "sub_ref"

\* a lock_guard whose constructor leaves the backend's lock alone
lock_guard_lock_skipped(held, h) == held

\* lock_guard(): per_thread::lock() of handle h
lock_guard_lock(held, h) == h

\* whether the next call into a backend may throw
MayFail == IF nfails < MaxFailures THEN BOOLEAN ELSE {FALSE}

\* the handle of thread t's state, or 0
HandleOf(t) == m_holder[t].m_per_thread

\* the call that leaves get_clock_*() on thread t, normally or by an exception
Leave(t, normally) ==
    /\ ppc' = [ppc EXCEPT ![t] = "idle"]
    /\ outcome' = [outcome EXCEPT ![t] = IF normally THEN "returned" ELSE "raised"]

\* what follows persistence_holder::set in set_persistence() and then get(), up to
\* the first call into the backend: a state without a handle makes none, so it
\* is initialized and get() returns
AfterSet(t, s, changed) ==
    IF load_once(kind) /\ (changed \/ ~s.m_initialized)
    THEN IF s.m_per_thread # 0
         THEN /\ m_holder' = [m_holder EXCEPT ![t] = s]
              /\ ppc' = [ppc EXCEPT ![t] = "sp_lock"]
              /\ outcome' = [outcome EXCEPT ![t] = "none"]
         ELSE /\ m_holder' = [m_holder EXCEPT ![t] = [s EXCEPT !.m_initialized = TRUE]]
              /\ Leave(t, TRUE)
    ELSE IF s.m_per_thread # 0
         THEN /\ m_holder' = [m_holder EXCEPT ![t] = [s EXCEPT !.m_initialized = TRUE]]
              /\ ppc' = [ppc EXCEPT ![t] = "mu_lock"]
              /\ outcome' = [outcome EXCEPT ![t] = "none"]
         ELSE /\ m_holder' = [m_holder EXCEPT ![t] = [s EXCEPT !.m_initialized = TRUE]]
              /\ Leave(t, TRUE)

appVars == <<app_pc, app_arg, app_old, installs>>

\* the get_clock_*() calls begun so far
Generations == generations[1] + generations[2]

\* ---- get_clock_*() on thread t
\* "auto * current_pers = g_clock_persistence.get();" and the test that opens
\* persistence_holder::set
PBegin(t) ==
    /\ ppc[t] = "idle"
    /\ Generations < MaxGenerations
    /\ generations' = [generations EXCEPT ![t] = generations[t] + 1]
    /\ pcur' = [pcur EXCEPT ![t] = g_persistence]
    /\ IF m_holder[t].m_persistence = g_persistence
       THEN AfterSet(t, m_holder[t], FALSE)
       ELSE /\ ppc' = [ppc EXCEPT ![t] = set_first_call(HandleOf(t), g_persistence)]
            /\ outcome' = [outcome EXCEPT ![t] = "none"]
            /\ UNCHANGED m_holder
    /\ UNCHANGED <<g_persistence, refs, plock, pstored, handles, nfails, kind>>
    /\ UNCHANGED appVars
    /\ UNCHANGED notProtoVars

\* "m_per_thread->close(); m_per_thread = nullptr;"
PClose(t) ==
    /\ ppc[t] = "close"
    /\ handles' = [handles EXCEPT ![HandleOf(t)].closes = @ + 1]
    /\ m_holder' = [m_holder EXCEPT ![t].m_per_thread = 0]
    /\ ppc' = [ppc EXCEPT ![t] = IF pcur[t] # 0 THEN "add_ref" ELSE "sub_ref"]
    /\ UNCHANGED <<g_persistence, refs, plock, pstored, nfails, kind, pcur,
                   generations, outcome>>
    /\ UNCHANGED appVars
    /\ UNCHANGED notProtoVars

\* "persistence->add_ref();", and "m_persistence = persistence;" if the holder
\* had no backend
PAddRef(t) ==
    /\ ppc[t] = "add_ref"
    /\ refs' = [refs EXCEPT ![pcur[t]] = add_ref(@)]
    /\ IF m_holder[t].m_persistence # 0
       THEN /\ ppc' = [ppc EXCEPT ![t] = "sub_ref"]
            /\ UNCHANGED m_holder
       ELSE /\ ppc' = [ppc EXCEPT ![t] = "get_for_current_thread"]
            /\ m_holder' = [m_holder EXCEPT ![t].m_persistence = pcur[t]]
    /\ UNCHANGED <<g_persistence, plock, pstored, handles, nfails, kind, pcur,
                   generations, outcome>>
    /\ UNCHANGED appVars
    /\ UNCHANGED notProtoVars

\* "m_persistence->sub_ref(); m_persistence = persistence;"
PSubRef(t) ==
    /\ ppc[t] = "sub_ref"
    /\ refs' = [refs EXCEPT ![m_holder[t].m_persistence] = sub_ref(@)]
    /\ LET s == [m_holder[t] EXCEPT !.m_persistence = pcur[t]]
       IN  IF pcur[t] # 0
           THEN /\ ppc' = [ppc EXCEPT ![t] = "get_for_current_thread"]
                /\ m_holder' = [m_holder EXCEPT ![t] = s]
                /\ UNCHANGED outcome
           ELSE AfterSet(t, s, TRUE)
    /\ UNCHANGED <<g_persistence, plock, pstored, handles, nfails, kind, pcur,
                   generations>>
    /\ UNCHANGED appVars
    /\ UNCHANGED notProtoVars

\* "m_per_thread = &m_persistence->get_for_current_thread();", which may throw
PGetForCurrentThread(t) ==
    /\ ppc[t] = "get_for_current_thread"
    /\ \E fails \in MayFail :
           IF fails
           THEN /\ nfails' = nfails + 1
                /\ Leave(t, FALSE)
                /\ UNCHANGED <<handles, m_holder>>
           ELSE /\ handles' = Append(handles, NewHandle(pcur[t], t))
                /\ AfterSet(t, [m_holder[t] EXCEPT !.m_per_thread = Len(handles) + 1],
                            TRUE)
                /\ UNCHANGED nfails
    /\ UNCHANGED <<g_persistence, refs, plock, pstored, kind, pcur, generations>>
    /\ UNCHANGED appVars
    /\ UNCHANGED notProtoVars

\* "std::lock_guard guard{m_holder};" of set_persistence() and of mutate():
\* per_thread::lock(), which waits for the backend's lock
PLock(t) ==
    /\ ppc[t] \in {"sp_lock", "mu_lock"}
    /\ plock[handles[HandleOf(t)].pers] = 0
    /\ plock' = [plock EXCEPT ![handles[HandleOf(t)].pers] =
                                  lock_guard_lock(@, HandleOf(t))]
    /\ handles' = [handles EXCEPT ![HandleOf(t)].locks = @ + 1]
    /\ ppc' = [ppc EXCEPT ![t] =
                  IF ppc[t] = "sp_lock" THEN "sp_load"
                  ELSE IF load_once(kind) THEN "mu_store" ELSE "mu_load"]
    /\ UNCHANGED <<g_persistence, refs, pstored, nfails, kind, m_holder, pcur,
                   generations, outcome>>
    /\ UNCHANGED appVars
    /\ UNCHANGED notProtoVars

\* "m_holder.load(data)": per_thread::load() finds a record, finds none, or throws
PLoad(t) ==
    /\ ppc[t] \in {"sp_load", "mu_load"}
    /\ handles' = [handles EXCEPT ![HandleOf(t)].loads = @ + 1]
    /\ \E fails \in MayFail :
           IF fails
           THEN /\ nfails' = nfails + 1
                /\ ppc' = [ppc EXCEPT ![t] = "unwind"]
           ELSE /\ UNCHANGED nfails
                /\ \E found \in {FALSE, pstored[handles[HandleOf(t)].pers]} :
                       ppc' = [ppc EXCEPT ![t] =
                                  IF ppc[t] = "mu_load" THEN "mu_store"
                                  ELSE IF found THEN "sp_unlock" ELSE "sp_store"]
    /\ UNCHANGED <<g_persistence, refs, plock, pstored, kind, m_holder, pcur,
                   generations, outcome>>
    /\ UNCHANGED appVars
    /\ UNCHANGED notProtoVars

\* "m_holder.save(data)", after init_new() or after func(): per_thread::store()
\* keeps the record, or throws
PStore(t) ==
    /\ ppc[t] \in {"sp_store", "mu_store"}
    /\ handles' = [handles EXCEPT ![HandleOf(t)].stores = @ + 1]
    /\ \E fails \in MayFail :
           IF fails
           THEN /\ nfails' = nfails + 1
                /\ ppc' = [ppc EXCEPT ![t] = "unwind"]
                /\ UNCHANGED pstored
           ELSE /\ UNCHANGED nfails
                /\ pstored' = [pstored EXCEPT ![handles[HandleOf(t)].pers] = TRUE]
                /\ ppc' = [ppc EXCEPT ![t] = IF ppc[t] = "sp_store" THEN "sp_unlock"
                                             ELSE "mu_unlock"]
    /\ UNCHANGED <<g_persistence, refs, plock, kind, m_holder, pcur, generations,
                   outcome>>
    /\ UNCHANGED appVars
    /\ UNCHANGED notProtoVars

\* what ~lock_guard leaves of the backend's lock
lock_guard_unlock_kept(held) == held

\* ~lock_guard: per_thread::unlock()
lock_guard_unlock(held) == 0

\* the lock_guard goes out of scope: at the end of set_persistence()'s block
\* ("m_initialized = true" precedes it), at the end of mutate(), or when an
\* exception passes through
PUnlock(t) ==
    /\ ppc[t] \in {"sp_unlock", "mu_unlock", "unwind"}
    /\ plock' = [plock EXCEPT ![handles[HandleOf(t)].pers] = lock_guard_unlock(@)]
    /\ handles' = [handles EXCEPT ![HandleOf(t)].unlocks = @ + 1]
    /\ CASE ppc[t] = "sp_unlock" ->
                /\ m_holder' = [m_holder EXCEPT ![t].m_initialized = TRUE]
                /\ ppc' = [ppc EXCEPT ![t] = "mu_lock"]
                /\ UNCHANGED outcome
         [] ppc[t] = "mu_unlock" ->
                /\ Leave(t, TRUE)
                /\ UNCHANGED m_holder
         [] ppc[t] = "unwind" ->
                /\ Leave(t, FALSE)
                /\ UNCHANGED m_holder
    /\ UNCHANGED <<g_persistence, refs, pstored, nfails, kind, pcur, generations>>
    /\ UNCHANGED appVars
    /\ UNCHANGED notProtoVars

\* ---- thread t exits: its thread_local state, which its first get_clock_*()
\* call constructed, is destroyed
\* ~persistence_holder: "if (m_per_thread) m_per_thread->close();"
PExitClose(t) ==
    /\ ppc[t] = "idle"
    /\ generations[t] > 0
    /\ IF HandleOf(t) # 0
       THEN /\ handles' = [handles EXCEPT ![HandleOf(t)].closes = @ + 1]
            /\ m_holder' = [m_holder EXCEPT ![t].m_per_thread = 0]
       ELSE UNCHANGED <<handles, m_holder>>
    /\ ppc' = [ppc EXCEPT ![t] = IF m_holder[t].m_persistence # 0 THEN "exit_sub_ref"
                                 ELSE "gone"]
    /\ UNCHANGED <<g_persistence, refs, plock, pstored, nfails, kind, pcur,
                   generations, outcome>>
    /\ UNCHANGED appVars
    /\ UNCHANGED notProtoVars

\* ~persistence_holder: "if (m_persistence) m_persistence->sub_ref();"
PExitSubRef(t) ==
    /\ ppc[t] = "exit_sub_ref"
    /\ refs' = [refs EXCEPT ![m_holder[t].m_persistence] = sub_ref(@)]
    /\ m_holder' = [m_holder EXCEPT ![t].m_persistence = 0]
    /\ ppc' = [ppc EXCEPT ![t] = "gone"]
    /\ UNCHANGED <<g_persistence, plock, pstored, handles, nfails, kind, pcur,
                   generations, outcome>>
    /\ UNCHANGED appVars
    /\ UNCHANGED notProtoVars

\* ---- set_*_persistence(pers), called by the application
\* "if (pers) pers->add_ref();"
GAddRef ==
    /\ app_pc = "idle"
    /\ installs < MaxInstalls
    /\ installs' = installs + 1
    /\ \E pers \in {0} \cup Backends :
           /\ app_arg' = pers
           /\ refs' = IF pers # 0 THEN [refs EXCEPT ![pers] = add_ref(@)] ELSE refs
    /\ app_pc' = "exchange"
    /\ UNCHANGED <<g_persistence, plock, pstored, handles, nfails, kind, m_holder,
                   ppc, pcur, generations, outcome, app_old>>
    /\ UNCHANGED notProtoVars

\* "auto old = g_clock_persistence.exchange(pers);"
GExchange ==
    /\ app_pc = "exchange"
    /\ app_old' = g_persistence
    /\ g_persistence' = app_arg
    /\ app_pc' = "sub_ref"
    /\ UNCHANGED <<refs, plock, pstored, handles, nfails, kind, m_holder, ppc, pcur,
                   generations, outcome, app_arg, installs>>
    /\ UNCHANGED notProtoVars

\* "if (old) old->sub_ref();"
GSubRef ==
    /\ app_pc = "sub_ref"
    /\ refs' = IF app_old # 0 THEN [refs EXCEPT ![app_old] = sub_ref(@)] ELSE refs
    /\ app_old' = 0
    /\ app_arg' = 0
    /\ app_pc' = "idle"
    /\ UNCHANGED <<g_persistence, plock, pstored, handles, nfails, kind, m_holder,
                   ppc, pcur, generations, outcome, installs>>
    /\ UNCHANGED notProtoVars

ProtoInit ==
    /\ kind \in Kinds
    /\ g_persistence = 0
    /\ refs = [b \in Backends |-> [add_ref |-> 0, sub_ref |-> 0]]
    /\ plock = [b \in Backends |-> 0]
    /\ pstored = [b \in Backends |-> FALSE]
    /\ handles = <<>>
    /\ nfails = 0
    /\ m_holder = [t \in Threads |-> NewHolder]
    /\ ppc = [t \in Threads |-> "idle"]
    /\ pcur = [t \in Threads |-> 0]
    /\ generations = [t \in Threads |-> 0]
    /\ outcome = [t \in Threads |-> "none"]
    /\ app_pc = "idle" /\ app_arg = 0 /\ app_old = 0 /\ installs = 0

\* the protocol, in runs that do not follow it
ProtoIdle ==
    /\ kind = "uuid"
    /\ g_persistence = 0
    /\ refs = [b \in Backends |-> [add_ref |-> 0, sub_ref |-> 0]]
    /\ plock = [b \in Backends |-> 0]
    /\ pstored = [b \in Backends |-> FALSE]
    /\ handles = <<>>
    /\ nfails = 0
    /\ m_holder = [t \in Threads |-> NewHolder]
    /\ ppc = [t \in Threads |-> "off"]
    /\ pcur = [t \in Threads |-> 0]
    /\ generations = [t \in Threads |-> 0]
    /\ outcome = [t \in Threads |-> "none"]
    /\ app_pc = "off" /\ app_arg = 0 /\ app_old = 0 /\ installs = 0

(***************************************************************************)
(* The detection of the clock tick (src/clocks.cpp, get_clock_tick and     *)
(* get_max_adjustment) and the fields get_clock_v7() returns.              *)
(***************************************************************************)
RECURSIVE detect_roundness_to_pow10_impl(_)
\* "while (val != 0) { if (val % 10 != 0) break; val /= 10; ret *= 10; }"
detect_roundness_to_pow10_impl(val) ==
    IF val = 0 \/ val % 10 # 0 THEN 1
    ELSE 10 * detect_roundness_to_pow10_impl(TruncDiv(val, 10))

Max2(a, b) == IF a >= b THEN a ELSE b

\* the maximum over val, val - 1 "if (val > 0)", and val + 1
detect_roundness_to_pow10(val) ==
    LET ret == detect_roundness_to_pow10_impl(val)
        ret1 == IF val > 0 THEN Max2(ret, detect_roundness_to_pow10_impl(val - 1))
                ELSE ret
    IN  Max2(ret1, detect_roundness_to_pow10_impl(val + 1))

\* "*std::min_element(std::begin(pows), std::end(pows))" of the three diffs
get_clock_tick(diffs) ==
    LET pows == [i \in 1..3 |-> detect_roundness_to_pow10(diffs[i])]
    IN  CHOOSE m \in {pows[i] : i \in 1..3} : \A i \in 1..3 : m <= pows[i]

\* round<max_unit_duration>(system_clock::duration(val)).count() with per counts
\* of the clock in a unit (ties to even), and "return ret > 1 ? ret : 0;"
max_adjustment_of(val, per) ==
    LET q == val \div per
        r == val % per
        ret == IF 2 * r < per THEN q
               ELSE IF 2 * r > per THEN q + 1
               ELSE IF q % 2 = 0 THEN q ELSE q + 1
    IN  IF ret > 1 THEN ret ELSE 0

\* differences of two successive distinct readings, in counts of the clock: the
\* clock may be set back between two readings, and a reading may be 1 off
Deltas == {-1000, -999, -11, -10, -9, -1, 1, 2, 9, 10, 11, 99, 100, 101, 999, 1000, 1001}

\* counts of system_clock in one max_unit_duration: a nanosecond clock under
\* units of 100 ns and of 1 us, and clocks ten or two times as fine as the unit
CountsPerUnit == {2, 10, 100, 1000}

TickInit ==
    /\ tk_pc = "detect"
    /\ tk_diffs = <<>>
    /\ tk_tick = 0
    /\ tk_per_unit \in CountsPerUnit
    /\ tk_max_adjustment = -1
    /\ v7_adjusted = 0
    /\ v7_result = <<>>

\* one round of the inner loop that ends: now() differs from base by diff
TickReading(diff) ==
    /\ tk_pc = "detect"
    /\ Len(tk_diffs) < 3
    /\ tk_diffs' = Append(tk_diffs, diff)
    /\ UNCHANGED <<tk_pc, tk_tick, tk_per_unit, tk_max_adjustment, v7_adjusted, v7_result>>
    /\ UNCHANGED notNumVars

\* the three diffs are in: the static is initialized
TickDetect ==
    /\ tk_pc = "detect"
    /\ Len(tk_diffs) = 3
    /\ tk_tick' = get_clock_tick(tk_diffs)
    /\ tk_pc' = "detected"
    /\ UNCHANGED <<tk_diffs, tk_per_unit, tk_max_adjustment, v7_adjusted, v7_result>>
    /\ UNCHANGED notNumVars

\* clock_state_base(): m_max_adjustment(get_max_adjustment())
TickMaxAdjustment ==
    /\ tk_pc = "detected"
    /\ tk_max_adjustment' = max_adjustment_of(tk_tick, tk_per_unit)
    /\ tk_pc' = "done"
    /\ UNCHANGED <<tk_diffs, tk_tick, tk_per_unit, v7_adjusted, v7_result>>
    /\ UNCHANGED notNumVars

TickNext == (\E diff \in Deltas : TickReading(diff)) \/ TickDetect \/ TickMaxAdjustment

\* ---- get_clock_v7() and uuid::generate_unix_time_based()
\* a fraction scaled by 4100 where the field has room for 4096 values
v7_extra_of_4100(rem_us) ==
    LET frac == rem_us * 4100
    IN  (((frac \div 1000) % 65536) + (IF frac % 1000 >= 500 THEN 1 ELSE 0)) % 65536

\* "uint64_t frac = remainder * 4096;
\*  uint16_t extra = uint16_t(frac / 1000) + uint16_t(frac % 1000 >= 500);"
v7_extra(rem_us) ==
    LET frac == rem_us * 4096
    IN  (((frac \div 1000) % 65536) + (IF frac % 1000 >= 500 THEN 1 ELSE 0)) % 65536

\* "parts.time_hi_and_version = (extra & 0x0FFF) | 0x7000;"
time_hi_and_version(extra) == BitOrN(extra % 4096, 28672, 16)

\* milliseconds since the epoch of the timestamps tried
V7Millis == {0, 1, 2}

\* adjusted_now of a monotonic_clock_state<milliseconds, microseconds>: any
\* microsecond of the milliseconds tried
V7Init ==
    /\ tk_pc = "v7" /\ tk_diffs = <<>> /\ tk_tick = 0 /\ tk_per_unit = 1
    /\ tk_max_adjustment = -1
    /\ v7_adjusted \in {ms * 1000 + r : ms \in V7Millis, r \in 0..999}
    /\ v7_result = <<>>

\* get_clock_v7() from "auto interval = adjusted_now.time_since_epoch();" on,
\* and the field generate_unix_time_based() makes of extra
GetClockV7 ==
    /\ tk_pc = "v7"
    /\ v7_result = <<>>
    /\ LET interval_ms == TruncDiv(v7_adjusted, 1000)
           rem_us == v7_adjusted - interval_ms * 1000
           extra == v7_extra(rem_us)
       IN  v7_result' = [clock |-> interval_ms, extra |-> extra,
                         time_hi_and_version |-> time_hi_and_version(extra)]
    /\ UNCHANGED <<tk_pc, tk_diffs, tk_tick, tk_per_unit, tk_max_adjustment, v7_adjusted>>
    /\ UNCHANGED notNumVars

\* the tick detection and get_clock_v7(), in runs that do not follow them
NumIdle ==
    /\ tk_pc = "off" /\ tk_diffs = <<>> /\ tk_tick = 0 /\ tk_per_unit = 1
    /\ tk_max_adjustment = -1 /\ v7_adjusted = 0 /\ v7_result = <<>>

vars == <<bpVars, clockVars, forkVars, protoVars, numVars>>

\* the detection of the clock tick at the first use of a clock state
InitTick == TickInit /\ BPIdle /\ ClockIdle /\ ForkIdle /\ ProtoIdle

SpecTick == InitTick /\ [][TickNext]_vars

\* get_clock_v7() on the adjusted time of a version 7 state
InitV7 == V7Init /\ BPIdle /\ ClockIdle /\ ForkIdle /\ ProtoIdle

V7Next == GetClockV7

SpecV7 == InitV7 /\ [][V7Next]_vars

\* the bit packer alone
InitBP == BPInit /\ ClockIdle /\ ForkIdle /\ ProtoIdle /\ NumIdle

SpecBP == InitBP /\ [][BPNext]_vars

\* the bit packer alone, fed with digits
InitDigits == DigitsInit /\ ClockIdle /\ ForkIdle /\ ProtoIdle /\ NumIdle

SpecDigits == InitDigits /\ [][DigitsNext]_vars

\* the bit packer alone, fed with bytes or with digits
PackerInit == BPInit \/ DigitsInit

InitPacker == PackerInit /\ ClockIdle /\ ForkIdle /\ ProtoIdle /\ NumIdle

PackerNext == BPUnpack \/ BPRepack \/ BPPack \/ BPReunpack

SpecPacker == InitPacker /\ [][PackerNext]_vars

\* one thread generating with one clock state
InitClock == ClockInit /\ BPIdle /\ ForkIdle /\ ProtoIdle /\ NumIdle

ClockNext == \E t \in {1} : Begin(t) \/ SetPersistence(t) \/ Get(t) \/ GetRetry(t)

SpecClock == InitClock /\ [][ClockNext]_vars

\* the reading of the pass quantizes to a tick after the one the state holds
LaterTick == Quantize(clock', max_adjustment) > state[1].m_last_time

\* the thread inside get() goes on running: it takes its first reading, and
\* next_distinct_now() does not for ever return readings of ticks up to last_time
\* while the clock has a later one to report
ClockFairness ==
    /\ WF_vars(Get(1))
    /\ WF_vars(GetRetry(1) /\ LaterTick)

\* one thread generating with one clock state, under a clock that moves on
SpecClockLive == InitClock /\ [][ClockNext]_vars /\ ClockFairness

\* records a backend may hold, written by any earlier run: a seq with or without
\* bits above the fourteen, an adjustment below zero, and one above the
\* max_adjustment of this run (an earlier run may have detected a coarser clock)
ArbitraryRecords(v) ==
    {[when |-> ToNs(v, 1), seq |-> IF v = "ulid" THEN 0 ELSE 5, adjustment |-> 3,
      random |-> IF v = "ulid" THEN LowMaxTail ELSE ZeroTail],
     [when |-> ToNs(v, 1), seq |-> IF v = "ulid" THEN 0 ELSE 65535, adjustment |-> 0,
      random |-> IF v = "ulid" THEN MaxTail ELSE ZeroTail],
     [when |-> ToNs(v, 2), seq |-> IF v = "ulid" THEN 0 ELSE 49152, adjustment |-> -1,
      random |-> IF v = "ulid" THEN ZeroTail ELSE ZeroTail]}

\* one thread generating through a backend that holds a record, or none
LoadInit ==
    /\ ClockInitCommon
    /\ marked = NoMark
    /\ g_clock_persistence = 1
    /\ stored \in ArbitraryRecords(variant) \cup {NoRecord}

InitLoad == LoadInit /\ BPIdle /\ ForkIdle /\ ProtoIdle /\ NumIdle

SpecLoad == InitLoad /\ [][ClockNext]_vars

\* one thread generating while the application installs and removes the backend
AttachInit ==
    /\ ClockInitCommon
    /\ marked = NoMark
    /\ g_clock_persistence \in {0, 1}
    /\ stored = NoRecord

InitAttach == AttachInit /\ BPIdle /\ ForkIdle /\ ProtoIdle /\ NumIdle

AttachNext ==
    \/ SetTimeBasedPersistence
    \/ \E t \in {1} : Begin(t) \/ SetPersistence(t) \/ Get(t) \/ GetRetry(t)

SpecAttach == InitAttach /\ [][AttachNext]_vars

\* two threads generating through one backend, which holds no record at first
PersInit ==
    /\ ClockInitCommon
    /\ marked = NoMark
    /\ g_clock_persistence = 1
    /\ stored = NoRecord

InitPers == PersInit /\ BPIdle /\ ForkIdle /\ ProtoIdle /\ NumIdle

PersNext == \E t \in Threads : Begin(t) \/ SetPersistence(t) \/ Get(t) \/ GetRetry(t)

SpecPers == InitPers /\ [][PersNext]_vars

\* two threads calling instance() of one process-wide singleton; no fork
InitSingleton == ForkInit /\ BPIdle /\ ClockIdle /\ ProtoIdle /\ NumIdle

SingletonNext ==
    \E t \in Threads :
        \/ SgTest(t) \/ SgLock(t) \/ SgRecheck(t) \/ SgResetBegin(t)
        \/ SgConstruct(t) \/ SgSetFlag(t) \/ SgUnlock(t) \/ SgReturn(t)

SpecSingleton == InitSingleton /\ [][SingletonNext]_vars

\* two threads calling instance() of a thread-local singleton, using the object,
\* and forking
InitThreadLocal == ForkInit /\ BPIdle /\ ClockIdle /\ ProtoIdle /\ NumIdle

ThreadLocalNext == \E t \in Threads : TlInstance(t) \/ TlUse(t) \/ TlFork(t)

SpecThreadLocal == InitThreadLocal /\ [][ThreadLocalNext]_vars

\* two threads calling instance() of a process-wide and of a thread-local
\* singleton, with constructors that may throw, and forking
InitSingletons == ForkInit /\ BPIdle /\ ClockIdle /\ ProtoIdle /\ NumIdle

SingletonsNext ==
    \E t \in Threads :
        \/ SgTest(t) \/ SgLock(t) \/ SgRecheck(t) \/ SgResetBegin(t)
        \/ SgConstruct(t) \/ SgSetFlag(t) \/ SgUnlock(t) \/ SgReturn(t)
        \/ SgPrepareFork(t) \/ SgAfterForkInParent(t) \/ SgAfterForkInChild(t)
        \/ SgForkUnregistered(t)
        \/ TlInstance(t) \/ TlUse(t) \/ TlFork(t)

SpecSingletons == InitSingletons /\ [][SingletonsNext]_vars

\* two threads generating while the application installs and removes backends
InitProto == ProtoInit /\ BPIdle /\ ClockIdle /\ ForkIdle /\ NumIdle

ProtoNext ==
    \/ GAddRef \/ GExchange \/ GSubRef
    \/ \E t \in Threads :
           \/ PBegin(t) \/ PClose(t) \/ PAddRef(t) \/ PSubRef(t)
           \/ PGetForCurrentThread(t) \/ PLock(t) \/ PLoad(t) \/ PStore(t)
           \/ PUnlock(t) \/ PExitClose(t) \/ PExitSubRef(t)

SpecProto == InitProto /\ [][ProtoNext]_vars

\* two threads calling instance() of one process-wide singleton, and forking;
\* a thread that is inside instance() or fork() goes on running
InitSingletonFork == ForkInit /\ BPIdle /\ ClockIdle /\ ProtoIdle /\ NumIdle

SingletonForkNext ==
    \E t \in Threads :
        \/ SgTest(t) \/ SgLock(t) \/ SgRecheck(t) \/ SgResetBegin(t)
        \/ SgConstruct(t) \/ SgSetFlag(t) \/ SgUnlock(t) \/ SgReturn(t)
        \/ SgPrepareFork(t) \/ SgAfterForkInParent(t) \/ SgAfterForkInChild(t)
        \/ SgForkUnregistered(t)

SgFairness == \A t \in Threads : WF_vars(SgLock(t) \/ SgRecheck(t) \/ SgResetBegin(t)
                                          \/ SgConstruct(t) \/ SgSetFlag(t)
                                          \/ SgUnlock(t) \/ SgReturn(t))

SpecSingletonFork == InitSingletonFork /\ [][SingletonForkNext]_vars /\ SgFairness


\* C5: packing the digits unpack_bits produced from a byte array gives the array back
C5_PackUnpackRoundTrip ==
    bpPhase = "repacked" => (bpOut.dst = bpSrc /\ ~bpOut.oob /\ ~bpMid.oob)

C5_Witness ==
    /\ bpPhase = "repacked"
    /\ bpB = 5 /\ bpP = 8
    /\ bpSrc[0] = 45 /\ bpSrc[7] = 255
    /\ bpMid.dst[0] = 2 /\ bpMid.dst[1] = 27
    /\ bpOut.dst = bpSrc

(***************************************************************************)
(* Properties of one clock state (SpecClock).                              *)
(***************************************************************************)
\* a get() of thread t returns in this step
Returns(t) == ngets'[t] = ngets[t] + 1

\* the order of (timestamp, clock_seq)
PairLess(a, b) == a.time < b.time \/ (a.time = b.time /\ a.seq < b.seq)

\* the order of (timestamp, tail_high, tail_low)
TripleLess(a, b) == a.time < b.time \/ (a.time = b.time /\ TailLess(a.tail, b.tail))

\* the order of (last_time, adjustment) and, for a monotonic state, of
\* (last_time, adjustment, clock_seq)
StateLess(v, a, b) ==
    \/ a.m_last_time < b.m_last_time
    \/ /\ a.m_last_time = b.m_last_time
       /\ \/ a.m_adjustment < b.m_adjustment
          \/ /\ v \in {"v6", "v7"}
             /\ a.m_adjustment = b.m_adjustment
             /\ a.m_clock_seq < b.m_clock_seq

\* C1: a UUID v1 state never returns a (timestamp, clock_seq) pair that an earlier
\* get() of the same state returned, whatever the readings (fewer than 2^14 of
\* them below last_time)
C1_NoPairReturnedTwice ==
    [][(variant = "v1" /\ Returns(1) /\ marked # NoResult) => result'[1] # marked]_vars

\* C2: with non-decreasing readings, each (timestamp, clock_seq) a UUID v6 / v7
\* state returns is strictly greater than the one it returned before
C2_PairsStrictlyIncrease ==
    [][(variant \in {"v6", "v7"} /\ Returns(1) /\ ~went_back' /\ result[1] # NoResult)
          => PairLess(result[1], result'[1])]_vars

\* C3: with non-decreasing readings, each (timestamp, tail_high, tail_low) a ULID
\* state returns is strictly greater than the one it returned before
C3_TriplesStrictlyIncrease ==
    [][(variant = "ulid" /\ Returns(1) /\ ~went_back' /\ result[1] # NoResult)
          => TripleLess(result[1], result'[1])]_vars

\* C4: when no reading of a get() quantizes below last_time, a UUID state's
\* (last_time, adjustment), with clock_seq third for v6 / v7, is strictly greater
\* after the get() than before it
C4_StateNeverRegresses ==
    [][(variant # "ulid" /\ Returns(1)
            /\ Quantize(clock', max_adjustment) >= state[1].m_last_time)
          => StateLess(variant, state[1], state'[1])]_vars

\* a v6 state that spent its adjustment and then moved on to the next clock_seq
C4_Witness ==
    /\ variant = "v6" /\ max_adjustment = 2 /\ g_clock_persistence = 0
    /\ ngets[1] = 4 /\ jumps = 0 /\ ~went_back
    /\ state[1].m_adjustment = 2 /\ state[1].m_clock_seq = 1
    /\ result[1].seq = 1

(***************************************************************************)
(* Properties of two clock states sharing one backend (SpecPers).          *)
(***************************************************************************)
\* (last_time, clock_seq, adjustment) of a state
Fields(s) == <<s.m_last_time, s.m_clock_seq, s.m_adjustment>>

\* thread 1 has finished a get() and is not in another one
FirstDone == pc[1] = "idle" /\ ngets[1] >= 1

\* C6: a UUID state that attaches after another state's last get() takes over that
\* state's (last_time, clock_seq, adjustment) from the stored record; the first
\* get() of a v1 state that did so, with no reading going backward, returns the
\* first state's clock_seq and a timestamp later than the first state's last one
C6_SecondStateContinuesFirst ==
    /\ [][(variant # "ulid" /\ FirstDone /\ pc[2] = "set_persistence"
              /\ pc'[2] = "get" /\ ~state[2].m_initialized)
            => Fields(state'[2]) = Fields(state[1])]_vars
    /\ [][(variant = "v1" /\ FirstDone /\ Returns(2) /\ ngets[2] = 0
              /\ Fields(state[2]) = Fields(state[1])
              /\ ~went_back'
              /\ Quantize(clock', max_adjustment) >= state[2].m_last_time)
            => (result'[2].seq = result[1].seq /\ result'[2].time > result[1].time)]_vars

\* C7: with non-decreasing readings, each (timestamp, clock_seq) a UUID get()
\* returns is strictly greater than the one returned by the get() that held the
\* backend's lock before it, on whichever thread
C7_PairsIncreaseInLockOrder ==
    [][(variant # "ulid" /\ (\E t \in Threads : Returns(t)) /\ ~went_back'
            /\ last_get.val # NoResult)
          => PairLess(last_get.val, last_get'.val)]_vars

\* b is a + 1, as 80-bit numbers
TailFollows(a, b) == a # MaxTail /\ b = increment(a)

\* C8: a ULID returned to one thread differs from the one returned just before
\* to the other thread, and if both carry the same timestamp its tail is the
\* other's tail plus one
C8_UlidsOfTwoThreads ==
    [][\A t \in Threads :
          (variant = "ulid" /\ Returns(t) /\ last_get.by \in Threads \ {t})
              => /\ last_get'.val # last_get.val
                 /\ last_get'.val.time = last_get.val.time
                        => TailFollows(last_get.val.tail, last_get'.val.tail)]_vars

(***************************************************************************)
(* Properties of the singletons.                                           *)
(***************************************************************************)
\* C9: without a fork, the process-wide singleton's object is constructed once,
\* no instance() returns storage in which no object has been constructed, and
\* every instance() returns that one object
C9_ConstructedOnce ==
    /\ nctor <= 1
    /\ ~sg_early
    /\ \A t \in Threads : sg_ret[t] # NoObject => (nctor = 1 /\ sg_ret[t].id = 1)

\* thread 2 found the flag clear, waited for the mutex while thread 1
\* constructed, and found the flag set in its second test
C9_Witness ==
    /\ sg_pc[2] = "unlock" /\ m_mutex = 2
    /\ m_obj = Constructed(1) /\ m_initialized_in_this_process
    /\ sg_ret[1].id = 1 /\ calls[2] = 1

\* C10: the first instance() to return after a fork, in the child, hands out an
\* object constructed after the fork, which nothing has used: not the object the
\* fork copied
C10_FreshAfterFork ==
    (forks > 0 /\ since_fork = 1)
        => \A t \in Threads :
               tl_alive[t] => /\ tl_ret[t].id > at_fork.nctor
                              /\ tl_ret[t].id # at_fork.obj.id
                              /\ tl_ret[t].uses = 0

\* the forking thread had an object it had used twice; after the fork its first
\* instance() returned the next object constructed
C10_Witness ==
    /\ forks = 1 /\ since_fork = 1
    /\ at_fork.obj = [m_memory_initialized |-> TRUE, id |-> 1, uses |-> 2]
    /\ tl_alive[1] /\ tl_ret[1] = [id |-> 2, uses |-> 0]

\* C11: in a forked child the handler leaves the singleton's mutex unlocked and
\* its flag clear, though the forking thread held the mutex; an instance() call
\* of the child that reaches the mutex gets through it and leaves instance(),
\* and the call that returns first in the child returns the one object
\* constructed since the fork.
C11_ChildStartsAfresh ==
    /\ [][\A t \in Threads :
             (sg_pc[t] = "in_fork" /\ forks' = forks + 1)
                 => (m_mutex = t /\ m_mutex' = 0 /\ ~m_initialized_in_this_process')]_vars
    /\ [][(forks > 0 /\ since_fork' = since_fork + 1)
             => /\ nctor' = at_fork.nctor + 1
                /\ \A t \in Threads :
                       sg_pc[t] = "return" => (sg_ret'[t].id = nctor' /\ ~sg_early')]_vars
    /\ \A t \in Threads : (forks > 0 /\ sg_pc[t] = "lock") ~> (sg_pc[t] = "idle")

C11_Witness ==
    /\ forks = 1 /\ since_fork = 1
    /\ at_fork = [obj |-> Constructed(1), nctor |-> 1]
    /\ sg_pc = [t \in Threads |-> IF t = 1 THEN "idle" ELSE "gone"]
    /\ sg_ret[1] = [id |-> 2, uses |-> 0]
    /\ m_mutex = 0 /\ m_initialized_in_this_process /\ nctor = 2

\* C12: an instance() call of a thread-local singleton that returns constructs an
\* object in place of the thread's cached one exactly when it is the first call
\* since a fork into this process; every other call on a thread that has an
\* object returns that object, constructs nothing and destroys nothing.
C12_ReconstructedOnlyWhenStale ==
    [][\A t \in Threads :
          (tl_alive[t] /\ calls'[t] = calls[t] + 1 /\ since_fork' = since_fork + 1)
              => IF forks > 0 /\ since_fork = 0
                 THEN obj'[t].id > at_fork.nctor
                 ELSE tl_init[t] => /\ obj'[t].id = obj[t].id
                                    /\ nctor' = nctor
                                    /\ destroyed' = destroyed]_vars

\* C19 as stated: in a forked child the object the singleton held when the
\* process forked is never destructed.
C19_OldObjectNeverDestructed ==
    (forks > 0 /\ at_fork.obj.m_memory_initialized) => at_fork.obj.id \notin destroyed

\* C19, amended: the child handler itself leaves the object and its buffer
\* alone; the next instance() call in the child that gets to reset() runs the
\* old object's destructor before it constructs the new one, so that once an
\* instance() call has returned in the child the object held at the fork has
\* been destructed and another one is in the buffer.
C19_OldObjectDestructedOnNextUse ==
    /\ [][\A t \in Threads :
             (sg_pc[t] = "in_fork" /\ forks' = forks + 1)
                 => (m_obj' = m_obj /\ destroyed' = destroyed)]_vars
    /\ [](\A t \in Threads :
             (forks > 0 /\ at_fork.obj.m_memory_initialized
                 /\ sg_pc[t] \in {"construct", "set_flag", "unlock", "return"})
                 => at_fork.obj.id \in destroyed)
    /\ []((forks > 0 /\ at_fork.obj.m_memory_initialized /\ since_fork >= 1)
             => (at_fork.obj.id \in destroyed /\ m_obj.m_memory_initialized
                 /\ m_obj.id > at_fork.nctor))

C19_Witness ==
    /\ forks = 1 /\ since_fork = 1
    /\ at_fork = [obj |-> Constructed(1), nctor |-> 1]
    /\ destroyed = {1}
    /\ m_obj = Constructed(2)
    /\ sg_ret[2] = [id |-> 2, uses |-> 0]
    /\ sg_pc = [t \in Threads |-> IF t = 2 THEN "idle" ELSE "gone"]

\* the high bits of digit k that lie above its low n bits are zero
LowBitsOnly(d, k, n) == d[k] < Pow2(n)

\* C20 as stated: unpack_bits(pack_bits(d)) = d for every digit array d whose
\* last digit has its padding bits (the bits the byte array has no room for)
\* zero.
C20_RoundTripLastDigitPadded ==
    (bpPhase = "reunpacked"
        /\ (remainder(bpB, bpP) # 0
               => LowBitsOnly(bpSrc, unpacked_bytes(bpB, bpP) - 1, remainder(bpB, bpP))))
        => bpOut.dst = bpSrc

\* C20, amended: the padding is in the first digit, which holds only the low
\* (8P mod B) bits when B does not divide 8P; unpack_bits(pack_bits(d)) = d for
\* every digit array d whose first digit has its other bits zero, and neither
\* call reads or writes outside its arrays.
C20_RoundTripFirstDigitPadded ==
    (bpPhase = "reunpacked"
        /\ (remainder(bpB, bpP) # 0 => LowBitsOnly(bpSrc, 0, remainder(bpB, bpP))))
        => (bpOut.dst = bpSrc /\ ~bpMid.oob /\ ~bpOut.oob)

C20_Witness ==
    /\ bpPhase = "reunpacked" /\ bpB = 5 /\ bpP = 2
    /\ bpSrc = [x \in 0..3 |-> IF x = 0 THEN 1 ELSE 31]
    /\ bpMid.dst = [x \in 0..1 |-> 255]
    /\ bpOut.dst = bpSrc

\* the handles returned so far
Handles == 1..Len(handles)

\* handle h holds its backend's lock
Locked(h) == plock[handles[h].pers] = h

\* where a thread is between a lock() and its unlock()
InLockGuard == {"sp_load", "sp_store", "sp_unlock", "mu_load", "mu_store", "mu_unlock",
                "unwind"}

\* C13: a load() or store() call is made on a handle only while the handle's
\* lock() holds the backend's lock, and outside the lock_guards of
\* set_persistence() and get(), so whenever either has returned, a thread's
\* handles hold no lock and have had an unlock() for every lock().
C13_LoadStoreUnderLock ==
    /\ [][\A h \in Handles :
             (handles'[h].loads # handles[h].loads \/ handles'[h].stores # handles[h].stores)
                 => (Locked(h) /\ handles[h].locks = handles[h].unlocks + 1)]_vars
    /\ [](\A h \in Handles :
             ppc[handles[h].by] \notin InLockGuard
                 => (~Locked(h) /\ handles[h].locks = handles[h].unlocks))

C13_Witness ==
    /\ kind = "uuid"
    /\ Len(handles) = 2
    /\ handles[1] = [pers |-> 1, by |-> 1, locks |-> 2, unlocks |-> 1, loads |-> 1,
                     stores |-> 1, closes |-> 0]
    /\ handles[2].pers = 1 /\ handles[2].by = 2
    /\ ppc[1] = "mu_store" /\ plock[1] = 1
    /\ ppc[2] = "sp_lock"

\* handle h gets a load() call in this step
Loads(h) == handles'[h].loads = handles[h].loads + 1

Destroyed(t) == ppc[t] = "idle" /\ ppc'[t] \in {"exit_sub_ref", "gone"}

\* thread t's state calls sub_ref() on backend b in this step
StateSubRef(t, b) ==
    /\ ppc[t] \in {"sub_ref", "exit_sub_ref"} /\ ppc'[t] # ppc[t]
    /\ refs'[b].sub_ref = refs[b].sub_ref + 1

\* C15: a state keeps the handle get_for_current_thread() gave it until its
\* backend is swapped or the state is destroyed; a handle the state no longer
\* keeps has had close() called exactly once and one it keeps has not; close()
\* comes before the state's sub_ref() on the handle's backend; and no call is
\* made on a handle after its close().
C15_HandleClosedOnceAndLast ==
    /\ [][\A t \in Threads :
             m_holder'[t].m_per_thread # m_holder[t].m_per_thread
                 => \/ ppc[t] = "get_for_current_thread" /\ m_holder[t].m_per_thread = 0
                    \/ ppc[t] = "close" /\ pcur[t] # m_holder[t].m_persistence
                    \/ Destroyed(t)]_vars
    /\ [](\A h \in Handles :
             handles[h].closes = IF m_holder[handles[h].by].m_per_thread = h THEN 0 ELSE 1)
    /\ [][\A t \in Threads, b \in Backends :
             StateSubRef(t, b)
                 => \A h \in Handles :
                        (handles[h].by = t /\ handles[h].pers = b) => handles[h].closes = 1]_vars
    /\ [][\A h \in Handles : handles[h].closes > 0 => handles'[h] = handles[h]]_vars

C15_Witness ==
    /\ Len(handles) = 2
    /\ handles[1].by = 1 /\ handles[1].pers = 1 /\ handles[1].closes = 1
    /\ handles[1].stores >= 1
    /\ handles[2].by = 1 /\ handles[2].pers = 2 /\ handles[2].closes = 0
    /\ m_holder[1].m_per_thread = 2 /\ m_holder[1].m_persistence = 2
    /\ ppc[1] = "idle" /\ outcome[1] = "returned"
    /\ refs[1].sub_ref = 2

\* the reference count of backend b: add_ref() calls less sub_ref() calls
Count(b) == refs[b].add_ref - refs[b].sub_ref

\* backend b is bound to the state of a thread that has not exited
Bound(b) == \E t \in Threads : ppc[t] # "gone" /\ m_holder[t].m_persistence = b

\* no call of set_*_persistence() or get_clock_*() is under way
Quiescent == app_pc = "idle" /\ \A t \in Threads : ppc[t] \in {"idle", "gone"}

\* C16: for every backend, sub_ref() is never called more often than add_ref();
\* its count is positive whenever it is installed or bound to a live thread's
\* state; and when no call is under way, it is not installed and no live
\* thread's state is bound to it, its count is 0.
C16_ReferenceCounts ==
    \A b \in Backends :
        /\ refs[b].sub_ref <= refs[b].add_ref
        /\ (g_persistence = b \/ Bound(b)) => Count(b) > 0
        /\ (Quiescent /\ g_persistence # b /\ ~Bound(b)) => Count(b) = 0

C16_Witness ==
    /\ Quiescent
    /\ g_persistence = 0 /\ installs = 2
    /\ refs[1] = [add_ref |-> 3, sub_ref |-> 3]
    /\ ppc = <<"idle", "gone">>
    /\ generations = <<2, 1>>
    /\ Len(handles) = 2 /\ handles[1].closes = 1 /\ handles[2].closes = 1

\* a load() or store() call of thread t throws in this step
Throws(t) ==
    /\ ppc[t] \in {"sp_load", "sp_store", "mu_load", "mu_store"} /\ ppc'[t] # ppc[t]
    /\ nfails' = nfails + 1

\* C17: when load() or store() throws inside set_persistence() or get(), nothing
\* more is called on the handle but the unlock() of the lock_guard, once, which
\* frees the backend's lock; the exception then leaves get_clock_*(), which does
\* not return normally, and the state keeps its backend and its handle.
C17_FailureUnlocksAndPropagates ==
    /\ [][\A t \in Threads :
             Throws(t) => (ppc'[t] = "unwind" /\ Locked(HandleOf(t))
                           /\ m_holder' = m_holder /\ plock' = plock)]_vars
    /\ [][\A t \in Threads :
             (ppc[t] = "unwind" /\ ppc'[t] # "unwind")
                 => LET h == HandleOf(t)
                    IN  /\ ppc'[t] = "idle" /\ outcome'[t] = "raised"
                        /\ handles'[h] = [handles[h] EXCEPT !.unlocks = @ + 1]
                        /\ handles'[h].locks = handles'[h].unlocks
                        /\ plock'[handles[h].pers] = 0
                        /\ m_holder' = m_holder]_vars
    /\ [](\A t \in Threads :
             (ppc[t] = "idle" /\ outcome[t] = "raised")
                 => \A h \in Handles :
                        handles[h].by = t => (~Locked(h) /\ handles[h].locks = handles[h].unlocks))

C17_Witness ==
    /\ kind = "uuid" /\ nfails = 1
    /\ ppc[1] = "idle" /\ outcome[1] = "raised"
    /\ Len(handles) = 1
    /\ handles[1] = [pers |-> 1, by |-> 1, locks |-> 2, unlocks |-> 2, loads |-> 1,
                     stores |-> 2, closes |-> 0]
    /\ plock[1] = 0
    /\ m_holder[1] = [m_persistence |-> 1, m_per_thread |-> 1, m_initialized |-> TRUE]

\* set_persistence() on thread 1 attaches its state to the backend, whose load()
\* finds no record
AttachesToEmpty ==
    /\ pc[1] = "set_persistence" /\ pc'[1] # pc[1]
    /\ current_pers[1] = 1 /\ state[1].m_persistence # 1
    /\ stored = NoRecord

\* s is a state as init_new() seeds it at the reading now
FreshlySeeded(s, now) ==
    /\ s.m_last_time = Round(now) - OneSecond(variant)
    /\ s.m_adjustment = 0
    /\ IF variant = "ulid" THEN s.m_tail \in TailSamples
       ELSE s.m_clock_seq \in SeqSeeds(variant)

\* C18 as stated: a state of any variant that attaches to a backend without a
\* record is seeded as freshly started, without an error, and a UUID state
\* stores that record before the lock is free again.
C18_AttachToEmptySeedsAfresh ==
    [][AttachesToEmpty
          => /\ pc'[1] = "get" /\ lock_holder' = 0
             /\ state'[1].m_persistence = 1 /\ state'[1].m_initialized
             /\ FreshlySeeded(state'[1], clock')
             /\ load_once(variant) => stored' = DataOf(variant, state'[1])]_vars

\* C18, amended: a UUID state that attaches to a backend without a record is
\* seeded as freshly started and stores that record before the lock is free
\* again; a ULID state is seeded only if it was not initialized before, else it
\* keeps its time, adjustment and tail, and it stores nothing on attaching;
\* neither raises an error.
C18_AttachToEmptySeedsUuidAfresh ==
    [][AttachesToEmpty
          => /\ pc'[1] = "get" /\ lock_holder' = 0
             /\ state'[1].m_persistence = 1 /\ state'[1].m_initialized
             /\ IF load_once(variant)
                THEN /\ FreshlySeeded(state'[1], clock')
                     /\ stored' = DataOf(variant, state'[1])
                ELSE /\ stored' = NoRecord
                     /\ IF state[1].m_initialized
                        THEN Fields(state'[1]) = Fields(state[1])
                             /\ state'[1].m_tail = state[1].m_tail
                        ELSE FreshlySeeded(state'[1], clock')]_vars

C18_Witness ==
    /\ variant = "v1" /\ pc[1] = "get" /\ ngets[1] = 1
    /\ g_clock_persistence = 1 /\ state[1].m_persistence = 1
    /\ clock = 3 /\ FreshlySeeded(state[1], 3)
    /\ state[1].m_clock_seq = 16383
    /\ stored = DataOf("v1", state[1])
    /\ result[1].time >= 0

(***************************************************************************)
(* What one pass of get() does with its reading (SpecClock).               *)
(***************************************************************************)
\* thread 1 is inside get(): the step it takes next is one pass of the loop,
\* fed with the reading clock'
InGet == pc[1] \in {"get", "wait"}

\* the reading of the pass quantizes to the tick the state holds
SameTick == Quantize(clock', max_adjustment) = state[1].m_last_time

\* the pass ends with adjust() returning false: get() has returned nothing and
\* stored nothing, and goes on to wait for a reading other than this one
WaitsForNextReading ==
    /\ pc'[1] = "wait"
    /\ wait_now'[1] = clock'
    /\ UNCHANGED <<result, ngets, last_get, stored>>

\* C21: a pass of a v1 state's get() whose reading quantizes to last_time while
\* adjustment >= max_adjustment (so every same-tick pass when max_adjustment = 0)
\* fails: last_time, adjustment and clock_seq stay as they are, nothing is returned
\* or stored, and get() waits; a retry is fed a reading distinct from the one
\* before it, and get() returns from a retry exactly when the reading quantizes to
\* another tick
C21_ExhaustionFailsTheAttempt ==
    /\ [][(variant = "v1" /\ InGet /\ SameTick
              /\ (state[1].m_adjustment >= max_adjustment \/ max_adjustment = 0))
            => (state'[1] = state[1] /\ WaitsForNextReading)]_vars
    /\ [][(variant = "v1" /\ pc[1] = "wait")
            => /\ clock' # wait_now[1]
               /\ Returns(1) <=> ~SameTick]_vars

\* a v1 state that spent its adjustment in tick 0 and was refused a third value
C21_Witness ==
    /\ variant = "v1" /\ max_adjustment = 2
    /\ pc[1] = "wait" /\ ngets[1] = 3
    /\ state[1].m_last_time = 0 /\ state[1].m_adjustment = 2
    /\ result[1].time = 2

\* the state holds the last clock_seq there is: one more would wrap to zero
LastSeq == state[1].m_clock_seq = 16383

\* C22: a pass of a v6 / v7 state's get() whose reading quantizes to last_time
\* while adjustment >= max_adjustment returns at once, with clock_seq one higher and
\* last_time and adjustment as they were, unless clock_seq is 0x3FFF: then, and
\* only then, the state stays as it is and get() waits for another reading
C22_ExhaustionAdvancesClockSeq ==
    /\ [][(variant \in {"v6", "v7"} /\ InGet /\ SameTick
              /\ state[1].m_adjustment >= max_adjustment)
            => IF LastSeq
               THEN state'[1] = state[1] /\ WaitsForNextReading
               ELSE /\ Returns(1)
                    /\ state'[1] = [state[1] EXCEPT !.m_clock_seq = @ + 1]
                    /\ result'[1].seq = state[1].m_clock_seq + 1
                    /\ result'[1].time = state[1].m_last_time + state[1].m_adjustment]_vars
    /\ [][(variant \in {"v6", "v7"} /\ InGet /\ pc'[1] = "wait")
            => (SameTick /\ state[1].m_adjustment >= max_adjustment /\ LastSeq)]_vars

\* a v7 state without sub-tick adjustment that was asked three times in one tick
C22_Witness ==
    /\ variant = "v7" /\ max_adjustment = 0 /\ g_clock_persistence = 0
    /\ pc[1] = "idle" /\ ngets[1] = 3 /\ jumps = 0
    /\ state[1].m_last_time = 1 /\ state[1].m_adjustment = 0
    /\ state[1].m_clock_seq = 2 /\ result[1].seq = 2 /\ result[1].time = 1

\* the reading of the pass quantizes to a tick before the one the state holds
EarlierTick == Quantize(clock', max_adjustment) < state[1].m_last_time

\* C23 as stated: on a reading that quantizes below last_time a v1 state takes a
\* fresh value from the random generator, other than the clock_seq it held, resets
\* adjustment to 0 and sets last_time to the reading
C23_BackwardJumpDrawsClockSeq ==
    [][(variant = "v1" /\ InGet /\ EarlierTick)
          => /\ state'[1].m_clock_seq \in SeqSeeds(variant) \ {state[1].m_clock_seq}
             /\ state'[1].m_adjustment = 0
             /\ state'[1].m_last_time = Quantize(clock', max_adjustment)]_vars

\* C23: on a reading that quantizes below last_time a v1 state moves to the next
\* clock_seq, (clock_seq + 1) mod 2^14, which differs from the one it held, resets
\* adjustment to 0 and sets last_time to the reading; no random value is drawn
C23_BackwardJumpAdvancesClockSeq ==
    [][(variant = "v1" /\ InGet /\ EarlierTick)
          => /\ state'[1].m_clock_seq = (state[1].m_clock_seq + 1) % 16384
             /\ state'[1].m_clock_seq # state[1].m_clock_seq
             /\ state'[1].m_adjustment = 0
             /\ state'[1].m_last_time = Quantize(clock', max_adjustment)
             /\ Returns(1) /\ result'[1].seq = state'[1].m_clock_seq]_vars

\* a v1 state seeded with clock_seq 0 whose second reading lay a tick before its
\* first
C23_Witness ==
    /\ variant = "v1" /\ max_adjustment = 0 /\ g_clock_persistence = 0
    /\ pc[1] = "idle" /\ ngets[1] = 2 /\ jumps = 1 /\ went_back
    /\ state[1].m_last_time = 0 /\ state[1].m_adjustment = 0
    /\ state[1].m_clock_seq = 1 /\ result[1].seq = 1

\* C24 as stated: the timestamp a v1 state returns for a reading that quantizes
\* below last_time is not below the last_time the state held before the call
C24_BackwardJumpKeepsTime ==
    [][(variant = "v1" /\ InGet /\ EarlierTick /\ Returns(1))
          => result'[1].time >= state[1].m_last_time]_vars

\* C24: the timestamp a v1 state returns for a reading that quantizes below
\* last_time is that quantized reading, which lies below the last_time the state
\* held before the call; the value differs from the state's earlier ones in its
\* clock_seq
C24_BackwardJumpReturnsEarlierTime ==
    [][(variant = "v1" /\ InGet /\ EarlierTick)
          => /\ Returns(1)
             /\ result'[1].time = Quantize(clock', max_adjustment)
             /\ result'[1].time < state[1].m_last_time
             /\ result'[1].seq # state[1].m_clock_seq]_vars

\* a v1 state seeded with clock_seq 0x3FFF that generated in tick 2 and then was
\* fed a reading of tick 0
C24_Witness ==
    /\ variant = "v1" /\ max_adjustment = 2 /\ g_clock_persistence = 0
    /\ pc[1] = "idle" /\ ngets[1] = 2 /\ jumps = 1 /\ went_back /\ clock <= 2
    /\ state[1].m_last_time = 0 /\ state[1].m_clock_seq = 0
    /\ result[1].time = 0 /\ result[1].seq = 0

\* the state a pass of get() starts from: a ULID state's first pass begins with
\* the stored record, when its handle loads one
StartOfPass ==
    IF ~load_once(variant) /\ pc[1] = "get" /\ holder_load(state[1], stored)
    THEN load_existing(variant, state[1], stored)
    ELSE state[1]

\* C25: a pass of a ULID state's get() whose reading quantizes to last_time while
\* adjustment >= max_adjustment adds one to the 80-bit tail, the low 64 bits
\* carrying into the high 16, and returns it; if the tail is 2^80 - 1, so that the
\* sum wraps to zero, the state stays as it is and get() waits for another reading
C25_UlidTailWrapWaits ==
    [][(variant = "ulid" /\ InGet
            /\ Quantize(clock', max_adjustment) = StartOfPass.m_last_time
            /\ StartOfPass.m_adjustment >= max_adjustment)
          => IF StartOfPass.m_tail = MaxTail
             THEN /\ state'[1].m_tail = MaxTail
                  /\ WaitsForNextReading
             ELSE /\ Returns(1)
                  /\ state'[1].m_tail = increment(StartOfPass.m_tail)
                  /\ result'[1].tail = state'[1].m_tail
                  /\ TailLess(StartOfPass.m_tail, result'[1].tail)]_vars

\* the clock_seq of the state after the pass is a value the random generator gave
Rerandomized == state'[1].m_clock_seq \in SeqSeeds(variant)

\* C26: a pass of a v6 / v7 state's get() takes a new random clock_seq when its
\* reading quantizes below last_time (adjustment then being reset to 0) and when
\* it is the pass that reaches a later tick after get() has waited; a pass that
\* reaches a later tick without a wait keeps clock_seq, and a pass in the same tick
\* keeps it or adds one
C26_ClockSeqRerandomizedTwice ==
    [][(variant \in {"v6", "v7"} /\ InGet)
          => IF EarlierTick
             THEN /\ Rerandomized
                  /\ state'[1].m_adjustment = 0
                  /\ state'[1].m_last_time = Quantize(clock', max_adjustment)
             ELSE IF SameTick
             THEN state'[1].m_clock_seq \in {state[1].m_clock_seq,
                                             state[1].m_clock_seq + 1}
             ELSE IF pc[1] = "wait"
             THEN Rerandomized /\ Returns(1)
             ELSE state'[1].m_clock_seq = state[1].m_clock_seq /\ Returns(1)]_vars

\* a v6 state that loaded clock_seq 0x3FFF, was asked in the tick of the record,
\* waited, and came back in the next tick with a new clock_seq
C26_Witness ==
    /\ variant = "v6" /\ max_adjustment = 0 /\ g_clock_persistence = 1
    /\ pc[1] = "idle" /\ ngets[1] = 1 /\ jumps = 0 /\ wait_now[1] = 2
    /\ state[1].m_last_time = 2 /\ state[1].m_clock_seq = 8191
    /\ result[1].seq = 8191 /\ result[1].time = 2

(***************************************************************************)
(* What a get() leaves in the backend (SpecPers).                          *)
(***************************************************************************)
\* C27: a get() that returns through an attached handle has stored one record,
\* which is the state the returned value was computed from, and has released the
\* lock; and a UUID state started from the record another state's last get() left
\* returns, with no reading going backward, no value that get() returned
C27_StoredRecordCoversReturned ==
    /\ [][\A t \in Threads :
              (Returns(t) /\ state[t].m_per_thread)
                  => /\ stored' = DataOf(variant, state'[t])
                     /\ result'[t].time = state'[t].m_last_time + state'[t].m_adjustment
                     /\ variant # "ulid" => result'[t].seq = state'[t].m_clock_seq
                     /\ variant = "ulid" => result'[t].tail = state'[t].m_tail
                     /\ lock_holder' = 0]_vars
    /\ [][(variant # "ulid" /\ FirstDone /\ Returns(2) /\ ngets[2] = 0
              /\ Fields(state[2]) = Fields(state[1])
              /\ stored = DataOf(variant, state[1])
              /\ ~went_back')
            => result'[2] # result[1]]_vars

(***************************************************************************)
(* Termination of get() (SpecClockLive).                                   *)
(***************************************************************************)
\* the clock has a reading to report that quantizes to a tick after last_time
LaterReadingExists ==
    \E now \in Readings : Quantize(now, max_adjustment) > state[1].m_last_time

\* C28: a get() of a v1, v6 or v7 state returns in the pass that is fed a reading
\* quantizing to a tick after last_time, and so every get() returns in the end if
\* the clock goes on to report such a reading
C28_GetReturns ==
    /\ [][(variant # "ulid" /\ InGet /\ LaterTick) => Returns(1)]_vars
    /\ (variant # "ulid" /\ pc[1] \in {"get", "wait"} /\ LaterReadingExists)
           ~> (pc[1] = "idle")

\* a v1 state without sub-tick adjustment that was asked twice in tick 1, waited,
\* and returned in tick 2
C28_Witness ==
    /\ variant = "v1" /\ max_adjustment = 0 /\ g_clock_persistence = 0
    /\ pc[1] = "idle" /\ ngets[1] = 2 /\ jumps = 0 /\ wait_now[1] = 2
    /\ state[1].m_last_time = 2 /\ result[1].time = 2

(***************************************************************************)
(* What unpack_bits computes (SpecBP).                                     *)
(***************************************************************************)
\* bit n of a byte array, counted from the most significant bit of byte 0
BitAt(bytes, n) == (bytes[n \div 8] \div Pow2(7 - (n % 8))) % 2

\* the bits by which unpacked_bytes digits of B bits exceed the bits of P bytes
PaddingBits(B, P) == B * unpacked_bytes(B, P) - total_bits(P)

\* digit k, of unpacked_bytes, of the big-endian integer held in a byte array of
\* P bytes, in base 2^B and most significant digit first: bit b of the digit, from
\* its top, is bit k * B + b of the integer written with B * unpacked_bytes bits
RECURSIVE DigitBits(_, _, _, _, _)
DigitBits(B, P, bytes, k, b) ==
    IF b = B THEN 0
    ELSE LET n == k * B + b - PaddingBits(B, P)
         IN  (IF n < 0 THEN 0 ELSE BitAt(bytes, n) * Pow2(B - 1 - b))
                 + DigitBits(B, P, bytes, k, b + 1)

\* C29: unpack_bits leaves in dst the unpacked_bytes = ceil(8P/B) digits, most
\* significant first, of the byte array read as a big-endian integer in base 2^B;
\* each is below 2^B, and the first is below 2^(8P mod B) when B does not divide
\* 8P.  For B = 5 and P = 16: 26 digits, all 0 for sixteen bytes 0x00, and 7
\* followed by twenty-five 31s for sixteen bytes 0xFF
C29_UnpackGivesBigEndianDigits ==
    bpPhase \in {"unpacked", "repacked"} =>
        LET U == unpacked_bytes(bpB, bpP)
            dst == bpMid.dst
        IN  /\ DOMAIN dst = 0..(U - 1)
            /\ U * bpB >= 8 * bpP /\ (U - 1) * bpB < 8 * bpP
            /\ \A k \in 0..(U - 1) :
                   /\ dst[k] = DigitBits(bpB, bpP, bpSrc, k, 0)
                   /\ dst[k] < Pow2(bpB)
            /\ remainder(bpB, bpP) # 0 => dst[0] < Pow2(remainder(bpB, bpP))
            /\ (bpB = 5 /\ bpP = 16)
                   => /\ U = 26 /\ dst[0] <= 7
                      /\ bpSrc = Filled(16, 0) => dst = Filled(26, 0)
                      /\ bpSrc = Filled(16, 255)
                             => dst = [k \in 0..25 |-> IF k = 0 THEN 7 ELSE 31]

\* the sixteen bytes 0xFF of a ULID, unpacked to digits of 5 bits
C29_Witness ==
    /\ bpPhase = "unpacked" /\ bpB = 5 /\ bpP = 16
    /\ bpSrc = Filled(16, 255)
    /\ bpMid.dst[0] = 7 /\ bpMid.dst[1] = 31 /\ bpMid.dst[25] = 31

\* a run m has ended with every one of its nsrc source elements read and every
\* one of its ndst destination elements written, its indices having gone through
\* the two arrays to their ends and never past them
Total(m, nsrc, ndst) ==
    /\ ~m.oob
    /\ DOMAIN m.dst = 0..(ndst - 1)
    /\ m.written = 0..(ndst - 1)
    /\ m.maxread = nsrc - 1
    /\ m.i = ndst /\ m.j = nsrc

\* C30: for every width 2..7 and every size tried, unpack_bits ends having read
\* the P bytes and written the U = unpacked_bytes digits, and pack_bits ends
\* having read the U digits and written the P bytes: no index passes the end of
\* its array and no element is left unwritten, whatever the entry state of the
\* switch and the loop bound
C30_PackerIsTotal ==
    /\ bpPhase \in {"unpacked", "repacked"}
           => Total(bpMid, bpP, unpacked_bytes(bpB, bpP))
    /\ bpPhase = "repacked"
           => Total(bpOut, unpacked_bytes(bpB, bpP), bpP)

\* width 7 and 8 bytes: the switch is entered at case 1 and one full round follows
C30_Witness ==
    /\ bpPhase = "repacked" /\ bpB = 7 /\ bpP = 8
    /\ EntryState(bpB, bpP) = 1 /\ full_rounds(bpB, bpP) = 1
    /\ bpMid.i = 10 /\ bpMid.j = 8 /\ bpMid.written = 0..9
    /\ bpOut.i = 8 /\ bpOut.j = 10 /\ bpOut.written = 0..7

(***************************************************************************)
(* The ranges of a UUID state's fields (SpecLoad).                         *)
(***************************************************************************)
\* the step seeds a state that loaded nothing: init_new()
SeedsAfresh ==
    /\ pc[1] = "set_persistence"
    /\ ~state[1].m_initialized
    /\ ~holder_load(holder_set(state[1], current_pers[1]).s, stored)

Constructing(u) == sg_pc[u] \in {"recheck", "reset", "construct", "set_flag", "unlock"}

\* thread t leaves fork() in the parent
ForkReturnsInParent(t) == sg_pc[t] = "in_fork" /\ sg_pc'[t] = "idle" /\ forks' = forks

\* C32: between the pre-fork hook and the post-fork hook in the parent the forking
\* thread holds the singleton's mutex and the object's own pre-fork hook has run
\* (if there is an object), so that no other thread is building the object while
\* the image is copied; the post-fork hook in the parent has run the object's
\* post-fork hook and left the mutex free; and the object is never replaced or
\* destroyed on the way: the parent has the same object after fork() as before
C32_ForkHoldsSingletonLock ==
    /\ [](\A t \in Threads :
            sg_pc[t] = "in_fork"
                => /\ m_mutex = t
                   /\ m_locked_for_fork = m_obj.m_memory_initialized
                   /\ \A u \in Threads \ {t} : ~Constructing(u))
    /\ [][\A t \in Threads :
            sg_pc[t] = "in_fork" => (m_obj' = m_obj /\ destroyed' = destroyed)]_vars
    /\ [][\A t \in Threads :
            ForkReturnsInParent(t)
                => /\ m_mutex' = 0
                   /\ ~m_locked_for_fork'
                   /\ m_initialized_in_this_process' = m_initialized_in_this_process]_vars

\* a thread forks while the object exists and the other thread waits for the mutex
C32_Witness ==
    /\ sg_pc[1] = "in_fork" /\ sg_pc[2] = "lock"
    /\ m_locked_for_fork /\ m_obj.m_memory_initialized /\ forks = 0

(***************************************************************************)
(* The padding bits and the destination arrays of the bit packer           *)
(* (SpecPacker).                                                           *)
(***************************************************************************)
\* the digit array d with the bits of digit 0 above its low (8P mod B) cleared
PaddingCleared(B, P, d) ==
    IF remainder(B, P) = 0 THEN d ELSE [d EXCEPT ![0] = d[0] % Pow2(remainder(B, P))]

\* C33: when B does not divide 8P, pack_bits drops the high B - (8P mod B) bits of
\* digit 0: a digit array packs to the bytes that the array with those bits
\* cleared packs to, so two arrays that differ in those bits only pack alike;
\* and unpack_bits turns every array of P bytes into digits, refusing none: it
\* ends having written every digit, with digit 0 within its (8P mod B) bits
C33_PackDiscardsPadding ==
    /\ (bpPhase = "packed" /\ remainder(bpB, bpP) # 0)
           => /\ ~bpMid.oob
              /\ bpMid.dst = pack_bits(bpB, bpP, PaddingCleared(bpB, bpP, bpSrc),
                                       Filled(bpP, bpFill)).dst
    /\ (bpPhase = "unpacked" /\ remainder(bpB, bpP) # 0)
           => /\ Total(bpMid, bpP, unpacked_bytes(bpB, bpP))
              /\ bpMid.dst[0] < Pow2(remainder(bpB, bpP))
              /\ \A k \in DOMAIN bpMid.dst : bpMid.dst[k] < Pow2(bpB)

\* four digits of 5 bits, all ones, have packed to two bytes of ones, as
\* <<1, 31, 31, 31>> does; and the bytes 0xFF 0xFF have been unpacked
C33_Witness ==
    \/ /\ bpPhase = "packed" /\ bpB = 5 /\ bpP = 2
       /\ bpSrc = [x \in 0..3 |-> 31]
       /\ bpMid.dst = [x \in 0..1 |-> 255]
       /\ PaddingCleared(5, 2, bpSrc) = [x \in 0..3 |-> IF x = 0 THEN 1 ELSE 31]
    \/ /\ bpPhase = "unpacked" /\ bpB = 3 /\ bpP = 1 /\ bpFill = 255
       /\ bpSrc = [x \in 0..0 |-> 255]
       /\ bpMid.dst = [x \in 0..2 |-> IF x = 0 THEN 3 ELSE 7]
       /\ bpOut = NoRun

\* contents a caller may have left in a destination of n elements, other than
\* the 1s and the 0xFFs the runs fill it with: every run is compared with the
\* run over these, and so with every other run on the same source
Prefills(n) == {[x \in 0..(n - 1) |-> (x * 37 + 170) % 256]}

\* C34: pack_bits and unpack_bits write every element of dst, and what they leave
\* there is the same whatever dst held before the call (the run filled it with
\* 1s or with 0xFF, as the tests do; other contents are tried here), dst[0] of a
\* switch entered at a case other than 0 included
C34_DstDependsOnlyOnSrc ==
    /\ bpPhase = "unpacked"
           => \A d \in Prefills(unpacked_bytes(bpB, bpP)) :
                  unpack_bits(bpB, bpP, bpSrc, d).dst = bpMid.dst
    /\ bpPhase = "repacked"
           => \A d \in Prefills(bpP) : pack_bits(bpB, bpP, bpMid.dst, d).dst = bpOut.dst
    /\ bpPhase = "packed"
           => \A d \in Prefills(bpP) : pack_bits(bpB, bpP, bpSrc, d).dst = bpMid.dst
    /\ bpPhase = "reunpacked"
           => \A d \in Prefills(unpacked_bytes(bpB, bpP)) :
                  unpack_bits(bpB, bpP, bpMid.dst, d).dst = bpOut.dst
    /\ bpPhase \in {"unpacked", "packed"}
           => bpMid.written = DOMAIN bpMid.dst
    /\ bpPhase \in {"repacked", "reunpacked"}
           => bpOut.written = DOMAIN bpOut.dst

\* three bytes of ones have been unpacked into digits of 5 bits over a destination
\* of ones: the switch was entered at case 4, whose first statement ORs into dst[0]
C34_Witness ==
    /\ bpPhase = "unpacked" /\ bpB = 5 /\ bpP = 3 /\ bpFill = 255
    /\ EntryState(bpB, bpP) = 4
    /\ bpSrc = [x \in 0..2 |-> 255]
    /\ bpMid.dst = [x \in 0..4 |-> IF x = 0 THEN 15 ELSE 31]

(***************************************************************************)
(* Constructors that throw (SpecSingletons).                               *)
(***************************************************************************)
\* a buffer marked as holding an object holds one whose constructor has returned
\* and whose destructor has not run
HoldsLiveObject(buf) ==
    buf.m_memory_initialized => (buf.id \in 1..nctor /\ buf.id \notin destroyed)

\* the constructor throws in thread t's instance() of the process-wide singleton
SgThrows(t) ==
    sg_pc[t] = "construct" /\ sg_pc'[t] # "construct" /\ nthrows' = nthrows + 1

\* thread t's instance() of the thread-local singleton ends, by an exception of
\* the constructor or by returning
TlThrows(t) == calls'[t] = calls[t] + 1 /\ sg_pc' = sg_pc /\ nthrows' = nthrows + 1

TlReturns(t) == calls'[t] = calls[t] + 1 /\ sg_pc' = sg_pc /\ nthrows' = nthrows

\* C35: when the constructor throws in instance() of the process-wide singleton,
\* the mutex is free again, the flag is still clear and the buffer is marked as
\* holding no object; when it throws in instance() of the thread-local singleton,
\* the thread's buffer is marked as holding none, and is either still to be
\* initialized or still to be reset.  So a buffer marked as holding an object
\* always holds a live one (a destructor runs on marked buffers only), and a later
\* instance() constructs again: it goes for the mutex, finds the flag clear and
\* resets the buffer, and whatever instance() returns is a live object
C35_ThrowingConstructorLeavesNoObject ==
    /\ [](HoldsLiveObject(m_obj) /\ \A t \in Threads : HoldsLiveObject(obj[t]))
    /\ [][\A t \in Threads :
            SgThrows(t)
                => /\ m_mutex' = 0
                   /\ ~m_initialized_in_this_process'
                   /\ ~m_obj'.m_memory_initialized
                   /\ sg_pc'[t] = "idle" /\ sg_ret' = sg_ret]_vars
    /\ [][\A t \in Threads :
            TlThrows(t)
                => /\ ~obj'[t].m_memory_initialized
                   /\ tl_init'[t] => s_need_to_reset'
                   /\ tl_ret' = tl_ret]_vars
    /\ [][\A t \in Threads :
            /\ (sg_pc[t] = "idle" /\ calls'[t] = calls[t] + 1 /\ sg_pc' # sg_pc
                    /\ ~m_initialized_in_this_process)
                   => sg_pc'[t] = "lock"
            /\ (sg_pc[t] = "recheck" /\ sg_pc'[t] # "recheck"
                    /\ ~m_initialized_in_this_process)
                   => sg_pc'[t] = "reset"
            /\ (sg_pc[t] = "return" /\ sg_pc'[t] = "idle")
                   => (m_obj.m_memory_initialized /\ sg_ret'[t].id = m_obj.id)
            /\ TlReturns(t)
                   => (obj'[t].m_memory_initialized /\ tl_ret'[t].id = obj'[t].id)]_vars

\* the constructor threw in the first instance() of the process-wide singleton
\* and a later call built the object; or it threw in a thread's first instance()
\* of the thread-local singleton, and in the reset after a fork, and later calls
\* built the object
C35_Witness ==
    \/ /\ nthrows = 1 /\ ~tl_registered /\ calls = <<2, 0>>
       /\ sg_ret[1].id = 1 /\ m_obj = Constructed(1) /\ m_mutex = 0
    \/ /\ nthrows = 1 /\ ~registered /\ calls = <<2, 0>>
       /\ tl_ret[1].id = 1 /\ obj[1].m_memory_initialized /\ forks = 0

(***************************************************************************)
(* A backend that fails to hand out a handle (SpecProto).                  *)
(***************************************************************************)
\* thread t begins a get_clock_*() call
Begins(t) == ppc[t] = "idle" /\ generations'[t] = generations[t] + 1

\* C36: a thread whose state holds no handle of the installed backend, as after a
\* get_for_current_thread() that threw, goes for a handle again in its next
\* get_clock_*() call; and a call that found a backend installed returns a value
\* only with a handle of that backend, through which it has stored a record
C36_FailedAttachIsRetried ==
    /\ [][\A t \in Threads :
            (Begins(t) /\ g_persistence # 0 /\ HandleOf(t) = 0)
                => ppc'[t] \in {"add_ref", "sub_ref", "get_for_current_thread"}]_vars
    /\ [](\A t \in Threads :
            (ppc[t] = "idle" /\ outcome[t] = "returned" /\ pcur[t] # 0)
                => /\ HandleOf(t) # 0
                   /\ handles[HandleOf(t)].pers = pcur[t]
                   /\ handles[HandleOf(t)].stores > 0)

(***************************************************************************)
(* The detected tick and max_adjustment (SpecTick).                        *)
(***************************************************************************)
Pows10 == {1, 10, 100, 1000, 10000}

\* the largest power of ten that divides d (1 for d = 0, which is no difference
\* of two distinct readings)
LargestPow10(d) ==
    IF d = 0 THEN 1
    ELSE CHOOSE p \in Pows10 :
             /\ d % p = 0
             /\ \A q \in Pows10 : d % q = 0 => q <= p

\* the same, a difference counting as divisible when d - 1, d or d + 1 is
Roundness(d) == Max2(LargestPow10(d - 1), Max2(LargestPow10(d), LargestPow10(d + 1)))

\* C37: the tick detected is the least, over the three differences of successive
\* distinct readings, of the largest power of ten dividing the difference, one
\* less or one more; max_adjustment is the tick in units of the state, rounded,
\* and 0 if that is not above 1
C37_TickIsLeastRoundness ==
    /\ tk_pc \in {"detected", "done"}
           => /\ \E i \in 1..3 : tk_tick = Roundness(tk_diffs[i])
              /\ \A i \in 1..3 : tk_tick <= Roundness(tk_diffs[i])
    /\ tk_pc = "done"
           => /\ tk_max_adjustment # 1
              /\ tk_max_adjustment = 0 \/ 2 * tk_max_adjustment * tk_per_unit
                     \in (2 * tk_tick - tk_per_unit)..(2 * tk_tick + tk_per_unit)
              /\ tk_max_adjustment = 0 => 2 * tk_tick <= 3 * tk_per_unit

(***************************************************************************)
(* The sub-millisecond field of a version 7 UUID (SpecV7).                 *)
(***************************************************************************)
\* the microseconds of v7_adjusted within its millisecond
V7Remainder == v7_adjusted % 1000

\* C38: the 12-bit field made of the r microseconds within the millisecond is
\* r * 4096 / 1000 rounded to the nearest integer, is below 4096, and is greater
\* than the field of every lesser r, so that timestamps of one millisecond are
\* ordered by it as they are by r; time_hi_and_version carries it in its low 12
\* bits under the version 7 in its high four
C38_ExtraIsMonotonic ==
    v7_result # <<>>
        => /\ v7_result.clock * 1000 + V7Remainder = v7_adjusted
           /\ v7_result.extra < 4096
           /\ 1000 * v7_result.extra - 4096 * V7Remainder \in -500..499
           /\ \A r \in 0..999 :
                  /\ r < V7Remainder => v7_extra(r) < v7_result.extra
                  /\ r > V7Remainder => v7_extra(r) > v7_result.extra
           /\ v7_result.time_hi_and_version \div 4096 = 7
           /\ v7_result.time_hi_and_version % 4096 = v7_result.extra

\* the last microsecond of a millisecond: extra is 4092, the field 0x7FFC
C38_Witness ==
    /\ v7_adjusted = 1999
    /\ v7_result = [clock |-> 1, extra |-> 4092, time_hi_and_version |-> 32764]
====
